---------------------------- MODULE Spec2Model ----------------------------
(***************************************************************************)
(* Citadel detection engine: the signal aggregator (SignalAggregator in    *)
(* package ml) and the secrets layer that feeds it, the detection          *)
(* profiles, the scorer configuration behind its reader/writer lock, and   *)
(* the hybrid detector's tunable weights.                                  *)
(*                                                                         *)
(* Numbers.  Scores, confidences and weights of a DetectionSignal are      *)
(* float64 values in [0,1]; the model keeps them as integers in hundredths *)
(* (score 95 is 0.95).  Values the aggregator computes (a boosted score, a *)
(* weighted mean) are exact rationals <<num, den>> in lowest terms, so a   *)
(* product by 1.3 or a quotient of sums is computed, not approximated.     *)
(* float64 rounds such values: a quotient that is exactly 0.7 here can be  *)
(* 0.6999999999999998 there.  The inputs the properties name at a          *)
(* threshold are ones whose float64 value is the exact one.                *)
(***************************************************************************)
EXTENDS Integers, Sequences, FiniteSets, TLC

VARIABLES
    signals,    \* SignalAggregator.signals: the signals added, in insertion order
    result,     \* the AggregatedResult Aggregate returned for the current signals
    finding,    \* what the secrets layer classified in this request, and under which sensitivity
    profileName,    \* the name last passed to GetProfile
    profile,        \* the *DetectionProfile it returned
    decision,       \* the verdicts computed for one score under that profile
    scorerConfig,   \* the package variable scorerConfig (a *ScorerConfig)
    scorerConfigMu, \* the sync.RWMutex guarding it
    loader,         \* the goroutine calling LoadScorerConfig / ResetScorerConfig
    request,        \* the goroutine of one request reading the scorer tables
    hd,         \* the HybridDetector's HeuristicWeight, SemanticWeight, SemanticEnabled
    hdMu,       \* the detector's lock
    detect,     \* the goroutine calling Detect
    setter,     \* the goroutine calling SetWeights
    enabler,    \* the goroutine calling EnableSemantic
    benign,     \* the benign-pattern table in force and the last ApplyBenignPatternDiscount call
    context,    \* the last ApplyContextDiscount call: its arguments and what it returned
    category,   \* the last NormalizeCategory call and the call on its result
    discovery,  \* the seed directories that exist, the environment, and what FindConfigDir returned
    embedder,   \* one LocalEmbedder, its lock, and the goroutines using it
    download    \* the model files on disk, downloadMutex, and the goroutines ensuring a model

aggregatorVars == <<signals, result, finding>>

profileVars == <<profileName, profile, decision>>

scorerVars == <<scorerConfig, scorerConfigMu, loader, request>>

detectorVars == <<hd, hdMu, detect, setter, enabler>>

libraryVars == <<benign, context, category, discovery, embedder, download>>

vars == <<signals, result, finding, profileName, profile, decision,
          scorerConfig, scorerConfigMu, loader, request,
          hd, hdMu, detect, setter, enabler,
          benign, context, category, discovery, embedder, download>>

(***************************************************************************)
(* Bounds of the model.                                                    *)
(***************************************************************************)
MaxSignals == 2

(***************************************************************************)
(* Exact rational arithmetic.                                              *)
(***************************************************************************)
RECURSIVE GCD(_, _)
GCD(a, b) ==
    IF b = 0 THEN a ELSE GCD(b, a % b)

Rat(n, d) ==
    LET g == GCD(n, d) IN <<n \div g, d \div g>>

\* r >= k/100
RatGe(r, k) ==
    r[1] * 100 >= k * r[2]

\* r < k/100
RatLt(r, k) ==
    r[1] * 100 < k * r[2]

\* r <= k/100
RatLe(r, k) ==
    r[1] * 100 <= k * r[2]

\* min(1.0, r): the clamp "if boostedScore > 1.0 { boostedScore = 1.0 }"
Clamp1(r) ==
    IF r[1] > r[2] THEN <<1, 1>> ELSE r

\* r * n/d
RatScale(r, n, d) ==
    Rat(r[1] * n, r[2] * d)

(***************************************************************************)
(* DefaultAggregationThresholds, in hundredths; ObfuscationBoost 1.3 is    *)
(* the rational ObfuscationBoostNum / ObfuscationBoostDen.                 *)
(***************************************************************************)
SafeguardEscalation == 40
HighConfidenceThreshold == 85
LowConfidenceThreshold == 70
ObfuscationBoostNum == 13
ObfuscationBoostDen == 10

\* the literal 0.95 of the Tier 0 high-score rule
HighScoreThreshold == 95

(***************************************************************************)
(* DetectionSignal.  A signal is a record                                  *)
(*   [source, score, confidence, label, weight, obfuscation_types,         *)
(*    metadata]                                                            *)
(* metadata is the set of <<key, value>> pairs of the Metadata map.        *)
(***************************************************************************)
Sources == {"heuristic", "semantic", "bert", "safeguard", "llm", "deeper_go"}
Labels == {"SAFE", "INJECTION", "UNKNOWN"}

NoSignal == [source |-> "nil"]
NoResult == [decision_path |-> "none"]
NoFinding == [sensitivity |-> "none"]

\* DetectionSignal.IsHighConfidence: confidence >= 0.85
IsHighConfidence(s) ==
    s.confidence >= HighConfidenceThreshold

\* DetectionSignal.IsLowConfidence: confidence < 0.70
IsLowConfidence(s) ==
    s.confidence < LowConfidenceThreshold

\* DetectionSignal.IsSafe
IsSafe(s) ==
    s.label = "SAFE"

\* DetectionSignal.IsMalicious
IsMalicious(s) ==
    s.label = "INJECTION"

\* DetectionSignal.HasObfuscation: the signal observed decoded content
SignalHasObfuscation(s) ==
    s.obfuscation_types # {}

\* mutant: any metadata flag that is set counts as a secret
SecretsFound_AnyFlag(s) ==
    \E kv \in s.metadata : kv[2] = TRUE

\* found, ok := s.Metadata["secrets_found"].(bool); ok && found
SecretsFound(s) ==
    <<"secrets_found", TRUE>> \in s.metadata

(***************************************************************************)
(* SignalAggregator helpers, each over the signal list sigs.               *)
(***************************************************************************)
\* the first index of the set S of indices, 0 when S is empty: where a
\* "for ... range a.signals" loop that returns on a match stops
FirstIndex(S) ==
    IF S = {} THEN 0 ELSE CHOOSE i \in S : \A j \in S : i <= j

GetSignal(sigs, source) ==
    LET i == FirstIndex({k \in 1..Len(sigs) : sigs[k].source = source})
    IN IF i = 0 THEN NoSignal ELSE sigs[i]

HasSignal(sigs, source) ==
    GetSignal(sigs, source) # NoSignal

HasObfuscation(sigs) ==
    \E i \in 1..Len(sigs) : SignalHasObfuscation(sigs[i])

GetAllObfuscationTypes(sigs) ==
    UNION {sigs[i].obfuscation_types : i \in 1..Len(sigs)}

\* weightedSum += s.Score * (s.Weight * s.Confidence), over all signals
RECURSIVE WeightedSum(_)
WeightedSum(sigs) ==
    IF sigs = <<>> THEN 0
    ELSE Head(sigs).score * (Head(sigs).weight * Head(sigs).confidence)
         + WeightedSum(Tail(sigs))

\* totalWeight += s.Weight * s.Confidence, over all signals
RECURSIVE TotalWeight(_)
TotalWeight(sigs) ==
    IF sigs = <<>> THEN 0
    ELSE Head(sigs).weight * Head(sigs).confidence + TotalWeight(Tail(sigs))

\* mutant: the confidence of a signal does not weigh its score
calculateWeightedScore_NoConfidence(sigs) ==
    LET n == Len(sigs)
        ws[i \in 0..n] == IF i = 0 THEN 0 ELSE ws[i - 1] + sigs[i].score * sigs[i].weight
        tw[i \in 0..n] == IF i = 0 THEN 0 ELSE tw[i - 1] + sigs[i].weight
    IN IF n = 0 \/ tw[n] = 0 THEN <<0, 1>> ELSE Rat(ws[n], 100 * tw[n])

\* calculateWeightedScore: sum(score*weight*confidence) / sum(weight*confidence),
\* 0 with no signals or a zero total weight
calculateWeightedScore(sigs) ==
    IF Len(sigs) = 0 THEN <<0, 1>>
    ELSE IF TotalWeight(sigs) = 0 THEN <<0, 1>>
    ELSE Rat(WeightedSum(sigs), 100 * TotalWeight(sigs))

\* mutant: BLOCK only above 0.70
scoreToAction_StrictBlock(score) ==
    IF score[1] * 100 > 70 * score[2] THEN "BLOCK"
    ELSE IF RatGe(score, 40) THEN "WARN"
    ELSE "ALLOW"

scoreToAction(score) ==
    IF RatGe(score, 70) THEN "BLOCK"
    ELSE IF RatGe(score, 40) THEN "WARN"
    ELSE "ALLOW"

\* mutant: HIGH only above 0.70
scoreToRiskLevel_StrictHigh(score) ==
    IF RatGe(score, 90) THEN "CRITICAL"
    ELSE IF score[1] * 100 > 70 * score[2] THEN "HIGH"
    ELSE IF RatGe(score, 50) THEN "MEDIUM"
    ELSE IF RatGe(score, 30) THEN "LOW"
    ELSE "MINIMAL"

scoreToRiskLevel(score) ==
    IF RatGe(score, 90) THEN "CRITICAL"
    ELSE IF RatGe(score, 70) THEN "HIGH"
    ELSE IF RatGe(score, 50) THEN "MEDIUM"
    ELSE IF RatGe(score, 30) THEN "LOW"
    ELSE "MINIMAL"

Abs(x) ==
    IF x < 0 THEN -x ELSE x

\* mutant: the ambiguous band escalates whatever the confidences
ShouldEscalateToSafeguard_AnyConfidence(sigs) ==
    LET bertSignal == GetSignal(sigs, "bert")
        heuristicSignal == GetSignal(sigs, "heuristic")
        score == calculateWeightedScore(sigs)
    IN IF /\ bertSignal # NoSignal
          /\ heuristicSignal # NoSignal
          /\ \/ Abs(bertSignal.score - heuristicSignal.score) > 30
             \/ IsLowConfidence(bertSignal) /\ HasObfuscation(sigs) /\ IsSafe(bertSignal)
       THEN TRUE
       ELSE RatGe(score, SafeguardEscalation) /\ RatLe(score, 70)

ShouldEscalateToSafeguard(sigs) ==
    LET bertSignal == GetSignal(sigs, "bert")
        heuristicSignal == GetSignal(sigs, "heuristic")
        score == calculateWeightedScore(sigs)
    IN IF /\ bertSignal # NoSignal
          /\ heuristicSignal # NoSignal
          /\ \/ Abs(bertSignal.score - heuristicSignal.score) > 30
             \/ IsLowConfidence(bertSignal) /\ HasObfuscation(sigs) /\ IsSafe(bertSignal)
       THEN TRUE
       ELSE IF RatGe(score, SafeguardEscalation) /\ RatLe(score, 70)
       THEN ~\E i \in 1..Len(sigs) : IsHighConfidence(sigs[i])
       ELSE FALSE

ShouldTriggerDeeperGoAnalysis(sigs) ==
    LET bertSignal == GetSignal(sigs, "bert")
        heuristicSignal == GetSignal(sigs, "heuristic")
    IN IF bertSignal = NoSignal THEN FALSE
       ELSE IF bertSignal.confidence < LowConfidenceThreshold
       THEN \/ HasObfuscation(sigs) /\ IsSafe(bertSignal)
            \/ /\ heuristicSignal # NoSignal
               /\ \/ IsMalicious(bertSignal) /\ heuristicSignal.score < 30
                  \/ IsSafe(bertSignal) /\ heuristicSignal.score > 40
       ELSE FALSE

(***************************************************************************)
(* Aggregate, tier by tier.                                                *)
(***************************************************************************)
\* mutant: only the first signal is looked at
AnySecretsFound_FirstOnly(sigs) ==
    Len(sigs) > 0 /\ SecretsFound(sigs[1])

\* TIER 0 (a): some signal has secrets_found metadata
AnySecretsFound(sigs) ==
    \E i \in 1..Len(sigs) : SecretsFound(sigs[i])

\* mutant: s.Score > 0.95
IsHighScore_Strict(s) ==
    s.score > HighScoreThreshold /\ IsHighConfidence(s)

\* TIER 0 (b): s.Score >= 0.95 && s.IsHighConfidence()
IsHighScore(s) ==
    s.score >= HighScoreThreshold /\ IsHighConfidence(s)

\* the signal the second Tier 0 loop returns on: the first high-score signal
HighScoreIndex(sigs) ==
    FirstIndex({k \in 1..Len(sigs) : IsHighScore(sigs[k])})

\* TIER 1: the signals with IsHighConfidence, in insertion order
HighConfSignals(sigs) ==
    SelectSeq(sigs, IsHighConfidence)

\* mutant: the sort is left out
TopSignal_Unsorted(hc) ==
    hc[1]

\* highConfSignals[0] after sort.Slice by confidence descending.  On a slice
\* of fewer than 12 elements sort.Slice is an insertion sort, which swaps
\* only strictly out-of-order neighbours: among signals of equal confidence
\* the one added first stays first.
TopSignal(hc) ==
    hc[FirstIndex({k \in 1..Len(hc) :
                      \A j \in 1..Len(hc) : hc[k].confidence >= hc[j].confidence})]

\* allAgree: every high-confidence signal has the top signal's label
AllAgree(hc) ==
    \A j \in 1..Len(hc) : hc[j].label = TopSignal(hc).label

\* mutant: the clamp is left out
VetoScore_NoClamp(heuristicSignal) ==
    Rat(heuristicSignal.score * ObfuscationBoostNum, 100 * ObfuscationBoostDen)

\* TIER 2 case 1: heuristicSignal.Score * ObfuscationBoost, clamped to 1.0
VetoScore(heuristicSignal) ==
    Clamp1(Rat(heuristicSignal.score * ObfuscationBoostNum, 100 * ObfuscationBoostDen))

\* TIER 2 case 1 fires
ObfuscationVeto(sigs) ==
    LET heuristicSignal == GetSignal(sigs, "heuristic")
        bertSignal == GetSignal(sigs, "bert")
    IN /\ HasObfuscation(sigs)
       /\ heuristicSignal # NoSignal
       /\ bertSignal # NoSignal
       /\ IsSafe(bertSignal)
       /\ bertSignal.confidence < HighConfidenceThreshold
       /\ RatGe(VetoScore(heuristicSignal), 50)

\* mutant: the boosted mean is not clamped to 1.0
BoostScore_NoClamp(heuristicSignal, bertSignal) ==
    Rat((bertSignal.score + heuristicSignal.score) * ObfuscationBoostNum,
        2 * 100 * ObfuscationBoostDen)

\* TIER 2 case 2: (bert.Score + heuristic.Score) / 2 * ObfuscationBoost, clamped
BoostScore(heuristicSignal, bertSignal) ==
    Clamp1(Rat((bertSignal.score + heuristicSignal.score) * ObfuscationBoostNum,
               2 * 100 * ObfuscationBoostDen))

\* mutant: heuristicSignal.Score > 0.4
ObfuscationBoost_Strict(sigs) ==
    LET heuristicSignal == GetSignal(sigs, "heuristic")
        bertSignal == GetSignal(sigs, "bert")
    IN /\ HasObfuscation(sigs)
       /\ heuristicSignal # NoSignal
       /\ bertSignal # NoSignal
       /\ IsMalicious(bertSignal)
       /\ heuristicSignal.score > 40

\* TIER 2 case 2 fires (case 1 is tried first)
ObfuscationBoost(sigs) ==
    LET heuristicSignal == GetSignal(sigs, "heuristic")
        bertSignal == GetSignal(sigs, "bert")
    IN /\ HasObfuscation(sigs)
       /\ heuristicSignal # NoSignal
       /\ bertSignal # NoSignal
       /\ IsMalicious(bertSignal)
       /\ heuristicSignal.score >= 40

\* mutant: a score of exactly 0.7 is boosted too
Tier3Score_ClosedBand(sigs) ==
    LET score == calculateWeightedScore(sigs)
    IN IF HasObfuscation(sigs) /\ RatGe(score, 30) /\ RatLe(score, 70)
       THEN Clamp1(RatScale(score, ObfuscationBoostNum, ObfuscationBoostDen))
       ELSE score

\* TIER 3: the weighted score, boosted when obfuscation was seen and the
\* score is moderate (score >= 0.3 && score < 0.7)
Tier3Score(sigs) ==
    LET score == calculateWeightedScore(sigs)
    IN IF HasObfuscation(sigs) /\ RatGe(score, 30) /\ RatLt(score, 70)
       THEN Clamp1(RatScale(score, ObfuscationBoostNum, ObfuscationBoostDen))
       ELSE score

\* mutant: the deeper Go analysis is requested before the safeguard
Tier3Escalation_DeeperGoFirst(sigs) ==
    IF ShouldTriggerDeeperGoAnalysis(sigs) /\ ~HasSignal(sigs, "deeper_go")
    THEN "deeper_go"
    ELSE IF ShouldEscalateToSafeguard(sigs) /\ ~HasSignal(sigs, "safeguard")
    THEN "safeguard"
    ELSE ""

\* TIER 3: the escalation request
Tier3Escalation(sigs) ==
    IF ShouldEscalateToSafeguard(sigs) /\ ~HasSignal(sigs, "safeguard")
    THEN "safeguard"
    ELSE IF ShouldTriggerDeeperGoAnalysis(sigs) /\ ~HasSignal(sigs, "deeper_go")
    THEN "deeper_go"
    ELSE ""

\* The AggregatedResult of Aggregate() on the signal list sigs.  Reason and
\* TotalLatencyMs are text and timing that no decision reads; they are left out.
AggregateResult(sigs) ==
    LET Decide(final, action, risk, path, esc) ==
            [signals |-> sigs,
             was_deobfuscated |-> HasObfuscation(sigs),
             obfuscation_types |-> GetAllObfuscationTypes(sigs),
             final_score |-> final,
             action |-> action,
             risk_level |-> risk,
             decision_path |-> path,
             escalation_needed |-> esc]
        hs == HighScoreIndex(sigs)
        hc == HighConfSignals(sigs)
        heuristicSignal == GetSignal(sigs, "heuristic")
        bertSignal == GetSignal(sigs, "bert")
    IN IF AnySecretsFound(sigs)
       THEN Decide(<<1, 1>>, "BLOCK", "CRITICAL", "TIER_0_SECRETS", "")
       ELSE IF hs # 0
       THEN Decide(Rat(sigs[hs].score, 100), "BLOCK", "CRITICAL",
                   "TIER_0_HIGH_SCORE_" \o sigs[hs].source, "")
       ELSE IF Len(hc) > 0 /\ AllAgree(hc)
       THEN LET top == Rat(TopSignal(hc).score, 100)
            IN Decide(top, scoreToAction(top), scoreToRiskLevel(top),
                      "TIER_1_HIGH_CONFIDENCE_AGREEMENT", "")
       ELSE IF ObfuscationVeto(sigs)
       THEN LET boostedScore == VetoScore(heuristicSignal)
            IN Decide(boostedScore, scoreToAction(boostedScore),
                      scoreToRiskLevel(boostedScore),
                      "TIER_2_OBFUSCATION_VETO", "deeper_go")
       ELSE IF ObfuscationBoost(sigs)
       THEN LET boostedScore == BoostScore(heuristicSignal, bertSignal)
            IN Decide(boostedScore, scoreToAction(boostedScore),
                      scoreToRiskLevel(boostedScore),
                      "TIER_2_OBFUSCATION_BOOST", "")
       ELSE LET score == Tier3Score(sigs)
            IN Decide(score, scoreToAction(score), scoreToRiskLevel(score),
                      "TIER_3_WEIGHTED_AGGREGATION", Tier3Escalation(sigs))

(***************************************************************************)
(* The secrets layer of the hybrid detector.  A request's text is          *)
(* classified as (has_credentials, has_pii, trusted_context); under the    *)
(* request's data_sensitivity the layer decides whether the finding        *)
(* blocks, and marks the heuristic signal's metadata accordingly.          *)
(***************************************************************************)
Sensitivities == {"strict", "standard", "tolerant"}

Findings ==
    [has_credentials : BOOLEAN, has_pii : BOOLEAN, trusted_context : BOOLEAN,
     sensitivity : Sensitivities]

\* strict blocks on any credential or PII; standard blocks on credentials and
\* on PII without a trusted context; tolerant blocks only on credentials
SecretsBlock(f) ==
    \/ f.has_credentials
    \/ f.has_pii /\ f.sensitivity = "strict"
    \/ f.has_pii /\ f.sensitivity = "standard" /\ ~f.trusted_context

\* the metadata keys the layer sets on its signal
SecretsMetadata(f) ==
    (IF SecretsBlock(f) THEN {<<"secrets_found", TRUE>>} ELSE {})
    \cup (IF f.has_pii /\ ~f.has_credentials THEN {<<"pii_only", TRUE>>} ELSE {})

(***************************************************************************)
(* The signals the detectors of the model emit.                            *)
(***************************************************************************)
\* static layer weight of each source, in hundredths
LayerWeight(source) ==
    CASE source = "heuristic" -> 40
      [] source = "semantic" -> 60
      [] source = "deeper_go" -> 50
      [] OTHER -> 100

Signal(source, score, confidence, label, obf) ==
    [source |-> source, score |-> score, confidence |-> confidence,
     label |-> label, weight |-> LayerWeight(source),
     obfuscation_types |-> obf, metadata |-> {}]

ScoreLabel(score) ==
    IF score >= 50 THEN "INJECTION" ELSE "SAFE"

HeuristicSignals ==
    {Signal("heuristic", sc, cf, ScoreLabel(sc), obf) :
        sc \in {10, 30, 40, 70, 95}, cf \in {50, 90}, obf \in {{}, {"base64"}}}

BertSignals ==
    {Signal("bert", sc, cf, lb, {}) :
        sc \in {10, 70, 95}, cf \in {50, 85, 90}, lb \in {"SAFE", "INJECTION"}}
    \cup {Signal("bert", 70, cf, "UNKNOWN", {}) : cf \in {0, 50, 90}}

SemanticSignals ==
    {Signal("semantic", sc, cf, ScoreLabel(sc), {}) : sc \in {10, 95}, cf \in {50, 90}}

ArbiterSignals ==
    {Signal(src, 70, cf, "INJECTION", {}) :
        src \in {"safeguard", "llm", "deeper_go"}, cf \in {50, 90}}

DetectorSignals ==
    HeuristicSignals \cup BertSignals \cup SemanticSignals \cup ArbiterSignals

\* the heuristic signals the secrets layer marks
ScannedSignals ==
    {Signal("heuristic", sc, 90, ScoreLabel(sc), {}) : sc \in {10, 95}}

(***************************************************************************)
(* Detection profiles (detection_profile.go), thresholds and discounts in  *)
(* hundredths.                                                             *)
(***************************************************************************)
ProfileStrict ==
    [Name |-> "strict", BlockThreshold |-> 65, WarnThreshold |-> 45,
     EducationalDiscount |-> 5, CreativeDiscount |-> 5,
     HistoricalDiscount |-> 5, ProfessionalDiscount |-> 10]

ProfileBalanced ==
    [Name |-> "balanced", BlockThreshold |-> 75, WarnThreshold |-> 55,
     EducationalDiscount |-> 15, CreativeDiscount |-> 15,
     HistoricalDiscount |-> 15, ProfessionalDiscount |-> 20]

ProfilePermissive ==
    [Name |-> "permissive", BlockThreshold |-> 85, WarnThreshold |-> 70,
     EducationalDiscount |-> 30, CreativeDiscount |-> 35,
     HistoricalDiscount |-> 30, ProfessionalDiscount |-> 35]

ProfileCodeAssistant ==
    [Name |-> "code_assistant", BlockThreshold |-> 80, WarnThreshold |-> 60,
     EducationalDiscount |-> 20, CreativeDiscount |-> 10,
     HistoricalDiscount |-> 15, ProfessionalDiscount |-> 30]

ProfileAISafety ==
    [Name |-> "ai_safety", BlockThreshold |-> 90, WarnThreshold |-> 75,
     EducationalDiscount |-> 35, CreativeDiscount |-> 25,
     HistoricalDiscount |-> 35, ProfessionalDiscount |-> 40]

\* a nil *DetectionProfile
NoProfile == [Name |-> "nil"]

NoDecision == [score |-> -1]

\* strings.ToLower on the names the model passes to GetProfile
ToLower(name) ==
    CASE name = "BALANCED" -> "balanced"
      [] name = "Strict" -> "strict"
      [] name = "Red_Team" -> "red_team"
      [] OTHER -> name

GetProfile(name) ==
    LET lower == ToLower(name)
    IN CASE lower = "strict" -> ProfileStrict
         [] lower \in {"balanced", "default", ""} -> ProfileBalanced
         [] lower \in {"permissive", "creative", "educational"} -> ProfilePermissive
         [] lower \in {"code_assistant", "code", "dev"} -> ProfileCodeAssistant
         [] lower \in {"ai_safety", "research", "red_team"} -> ProfileAISafety
         [] OTHER -> ProfileBalanced

\* mutant: a score equal to the block threshold only warns
ProfiledDecision_StrictBlock(score, p) ==
    LET pr == IF p = NoProfile THEN ProfileBalanced ELSE p
    IN IF score > pr.BlockThreshold THEN "BLOCK"
       ELSE IF score >= pr.WarnThreshold THEN "WARN"
       ELSE "ALLOW"

\* ProfiledDecision(score, profile), score in hundredths
ProfiledDecision(score, p) ==
    LET pr == IF p = NoProfile THEN ProfileBalanced ELSE p
    IN IF score >= pr.BlockThreshold THEN "BLOCK"
       ELSE IF score >= pr.WarnThreshold THEN "WARN"
       ELSE "ALLOW"

\* ToAction(score, warnThreshold, blockThreshold), all in hundredths
ToAction(score, warnThreshold, blockThreshold) ==
    IF score >= blockThreshold THEN "BLOCK"
    ELSE IF score >= warnThreshold THEN "WARN"
    ELSE "ALLOW"

ProfileInit ==
    /\ profileName = "nil"
    /\ profile = NoProfile
    /\ decision = NoDecision

(***************************************************************************)
(* The scorer configuration (seed_loader.go): the package variable         *)
(* scorerConfig behind scorerConfigMu.  A config is known by the number of *)
(* the load that parsed it; each table of it is empty or not.              *)
(***************************************************************************)
\* scorerConfig = nil
NoConfig == [id |-> 0]

\* what yaml.Unmarshal can make of a scorer_weights.yaml
ParsedConfigs ==
    [KeywordWeights : BOOLEAN, CryptoPatterns : BOOLEAN, BenignPatterns : BOOLEAN]

\* what os.ReadFile and yaml.Unmarshal can return
FileOutcomes == {"missing", "unreadable", "malformed", "parsed"}

Tables == <<"KeywordWeights", "CryptoPatterns", "BenignPatterns">>

\* the map each getter returns under the config cfg
KeywordWeightsOf(cfg) ==
    IF cfg # NoConfig /\ cfg.KeywordWeights
    THEN <<"KeywordWeights", cfg.id>>
    ELSE <<"defaultKeywordWeights", 0>>

CryptoPatternsOf(cfg) ==
    IF cfg # NoConfig /\ cfg.CryptoPatterns
    THEN <<"CryptoPatterns", cfg.id>>
    ELSE <<"defaultCryptoPatterns", 0>>

BenignPatternsOf(cfg) ==
    IF cfg # NoConfig /\ cfg.BenignPatterns
    THEN <<"BenignPatterns", cfg.id>>
    ELSE <<"empty", 0>>

TableOf(t, cfg) ==
    CASE t = "KeywordWeights" -> KeywordWeightsOf(cfg)
      [] t = "CryptoPatterns" -> CryptoPatternsOf(cfg)
      [] t = "BenignPatterns" -> BenignPatternsOf(cfg)

ScorerInit ==
    /\ scorerConfig = NoConfig
    /\ scorerConfigMu = [writer |-> FALSE, readers |-> 0]
    /\ loader = [pc |-> "idle", config |-> NoConfig, loads |-> 0,
                 file |-> "none", returned |-> "none"]
    /\ request = [pc |-> "call", table |-> 1, seen |-> <<>>]

(***************************************************************************)
(* The hybrid detector's tunable fields: HeuristicWeight, SemanticWeight   *)
(* and SemanticEnabled behind the detector's lock.                         *)
(***************************************************************************)
\* the arguments the SetWeights caller passes
WeightPairs == {<<0, 90>>, <<10, 80>>, <<70, 30>>}

DefaultWeights == <<40, 60>>

NotRead == [HeuristicWeight |-> -1, SemanticWeight |-> -1, SemanticEnabled |-> "none"]

\* NewHybridDetector; semantic tells whether a semantic detector is configured
DetectorInit(semantic) ==
    /\ hd = [HeuristicWeight |-> DefaultWeights[1], SemanticWeight |-> DefaultWeights[2],
             SemanticEnabled |-> semantic, semantic |-> semantic]
    /\ hdMu = [writer |-> "none", readers |-> 0]
    /\ detect = [pc |-> "idle", read |-> NotRead]
    /\ setter = [pc |-> "idle", heuristic |-> 0, semantic |-> 0]
    /\ enabler = [pc |-> "idle", enabled |-> FALSE]

(***************************************************************************)
(* The benign-pattern discount (seed_loader.go).  A text is a sequence of  *)
(* one-character strings; a benign-pattern table maps phrases to negative  *)
(* weights, in hundredths.                                                 *)
(***************************************************************************)
MaxTextLen == 3

MaxBenignDiscount == -65

Chars == {"a", "b", "A"}

Texts == UNION {[1..n -> Chars] : n \in 0..MaxTextLen}

\* the phrases a scorer_weights.yaml lists under benign_patterns, and the
\* weights it gives them
BenignPhrases == {<<"a">>, <<"A", "b">>, <<"b", "a">>}

BenignWeights == {-40, -30, -25}

BenignTables == UNION {[S -> BenignWeights] : S \in SUBSET BenignPhrases}

\* what GetBenignPatterns returns when no table is loaded
EmptyTable == [p \in {} |-> 0]

\* strings.ToLower
LowerChar(c) ==
    IF c = "A" THEN "a" ELSE IF c = "B" THEN "b" ELSE c

ToLowerText(s) ==
    [i \in 1..Len(s) |-> LowerChar(s[i])]

\* strings.Contains
Contains(s, substr) ==
    \E i \in 0..(Len(s) - Len(substr)) : SubSeq(s, i + 1, i + Len(substr)) = substr

\* the loop of ApplyBenignPatternDiscount over the phrases in matched
RECURSIVE SumOfWeights(_, _)
SumOfWeights(patterns, matched) ==
    IF matched = {} THEN 0
    ELSE LET pattern == CHOOSE p \in matched : TRUE
         IN  patterns[pattern] + SumOfWeights(patterns, matched \ {pattern})

\* ApplyBenignPatternDiscount comparing the text with the phrase as written
ApplyBenignPatternDiscount_PhraseAsWritten(benignPatterns, text) ==
    IF DOMAIN benignPatterns = {}
    THEN [discount |-> 0, matched |-> {}]
    ELSE LET textLower == ToLowerText(text)
             matched == {pattern \in DOMAIN benignPatterns :
                             Contains(textLower, pattern)}
             discount == SumOfWeights(benignPatterns, matched)
         IN  [discount |-> IF discount < MaxBenignDiscount
                           THEN MaxBenignDiscount ELSE discount,
              matched |-> matched]

\* the discount and the matched phrases (their order is that of the map
\* iteration and is not modelled)
ApplyBenignPatternDiscount(benignPatterns, text) ==
    IF DOMAIN benignPatterns = {}
    THEN [discount |-> 0, matched |-> {}]
    ELSE LET textLower == ToLowerText(text)
             matched == {pattern \in DOMAIN benignPatterns :
                             Contains(textLower, ToLowerText(pattern))}
             discount == SumOfWeights(benignPatterns, matched)
         IN  [discount |-> IF discount < MaxBenignDiscount
                           THEN MaxBenignDiscount ELSE discount,
              matched |-> matched]

NotCalled == [pc |-> "none"]

BenignInit ==
    benign = [patterns |-> EmptyTable, call |-> NotCalled]

(***************************************************************************)
(* The profile-based context discount (detection_profile.go).  Context     *)
(* scores are hundredths; a discount is in ten-thousandths, the product of *)
(* a profile's discount and a context score.                               *)
(***************************************************************************)
MaxPhrases == 2

\* DetectContextSignals on a text containing so many phrases of each list:
\* each educational, creative or historical phrase adds 0.2 to its score,
\* each professional one 0.25
DetectContextSignals(educational, creative, historical, professional) ==
    [IsEducational |-> 20 * educational >= 20,
     IsCreative |-> 20 * creative >= 20,
     IsHistorical |-> 20 * historical >= 20,
     IsProfessional |-> 25 * professional >= 25,
     EducationalScore |-> 20 * educational,
     CreativeScore |-> 20 * creative,
     HistoricalScore |-> 20 * historical,
     ProfessionalScore |-> 25 * professional]

\* the sum of the discounts of the context signals that are set
ContextDiscount(s, p) ==
    (IF s.IsEducational THEN p.EducationalDiscount * s.EducationalScore ELSE 0)
    + (IF s.IsCreative THEN p.CreativeDiscount * s.CreativeScore ELSE 0)
    + (IF s.IsHistorical THEN p.HistoricalDiscount * s.HistoricalScore ELSE 0)
    + (IF s.IsProfessional THEN p.ProfessionalDiscount * s.ProfessionalScore ELSE 0)

\* score * (1 - discount) with the discount capped at 0.5, as a rational
ApplyContextDiscount(score, s, p) ==
    LET prof == IF p = NoProfile THEN ProfileBalanced ELSE p
        discount == ContextDiscount(s, prof)
        capped == IF discount > 5000 THEN 5000 ELSE discount
    IN  Rat(score * (10000 - capped), 1000000)

ContextInit ==
    context = [signals |-> DetectContextSignals(0, 0, 0, 0), call |-> NotCalled]

(***************************************************************************)
(* Category normalisation (the TIS categories).  Categories are strings;   *)
(* Len and SubSeq take them apart.                                         *)
(***************************************************************************)
\* the values of the TISCategory constants
AllTISCategories ==
    {"instruction_override", "jailbreak", "roleplay", "data_exfil",
     "data_dump", "command_injection", "file_access",
     "context_manipulation", "token_exhaustion", "goal_hijacking",
     "autonomy_abuse", "hallucination_injection", "mcp_injection",
     "payment_fraud", "impersonation", "psychological",
     "social_engineering", "obfuscation", "multi_turn",
     "indirect_injection", "unknown"}

TISCategoryUnknown == "unknown"

\* internalCategoryMapping without its last block, the TIS category names
internalCategoryMapping_OSSNames ==
       "instruction_override" :> "instruction_override"
    @@ "authority_bypass" :> "jailbreak"
    @@ "information_extraction" :> "data_exfil"
    @@ "roleplay_attack" :> "roleplay"
    @@ "code_execution" :> "command_injection"
    @@ "fiction_frame" :> "multi_turn"
    @@ "persona_hijack" :> "jailbreak"
    @@ "eval_abuse" :> "jailbreak"
    @@ "escalation" :> "multi_turn"
    @@ "safety_disable" :> "jailbreak"
    @@ "restrictions_disable" :> "jailbreak"
    @@ "filter_disable" :> "jailbreak"
    @@ "unsafe_mode" :> "jailbreak"
    @@ "admin_override" :> "impersonation"
    @@ "elevated_trust" :> "impersonation"
    @@ "xml_policy" :> "instruction_override"
    @@ "ini_policy" :> "instruction_override"
    @@ "xss" :> "command_injection"
    @@ "sql_injection" :> "command_injection"
    @@ "code_injection" :> "command_injection"
    @@ "command_injection" :> "command_injection"
    @@ "path_traversal" :> "file_access"
    @@ "deserialization" :> "command_injection"
    @@ "ssrf" :> "indirect_injection"
    @@ "csrf" :> "indirect_injection"
    @@ "auth_bypass" :> "impersonation"
    @@ "hardcoded_creds" :> "data_exfil"
    @@ "info_disclosure" :> "data_exfil"
    @@ "file_upload" :> "file_access"
    @@ "memory_corruption" :> "command_injection"
    @@ "buffer_overflow" :> "command_injection"
    @@ "use_after_free" :> "command_injection"
    @@ "privilege_escalation" :> "impersonation"
    @@ "vulnerability" :> "unknown"
    @@ "injection" :> "command_injection"
    @@ "rce" :> "command_injection"
    @@ "dos" :> "token_exhaustion"
    @@ "malware" :> "indirect_injection"
    @@ "supply_chain" :> "indirect_injection"

internalCategoryMapping ==
       "instruction_override" :> "instruction_override"
    @@ "authority_bypass" :> "jailbreak"
    @@ "information_extraction" :> "data_exfil"
    @@ "roleplay_attack" :> "roleplay"
    @@ "code_execution" :> "command_injection"
    @@ "fiction_frame" :> "multi_turn"
    @@ "persona_hijack" :> "jailbreak"
    @@ "eval_abuse" :> "jailbreak"
    @@ "escalation" :> "multi_turn"
    @@ "safety_disable" :> "jailbreak"
    @@ "restrictions_disable" :> "jailbreak"
    @@ "filter_disable" :> "jailbreak"
    @@ "unsafe_mode" :> "jailbreak"
    @@ "admin_override" :> "impersonation"
    @@ "elevated_trust" :> "impersonation"
    @@ "xml_policy" :> "instruction_override"
    @@ "ini_policy" :> "instruction_override"
    @@ "xss" :> "command_injection"
    @@ "sql_injection" :> "command_injection"
    @@ "code_injection" :> "command_injection"
    @@ "command_injection" :> "command_injection"
    @@ "path_traversal" :> "file_access"
    @@ "deserialization" :> "command_injection"
    @@ "ssrf" :> "indirect_injection"
    @@ "csrf" :> "indirect_injection"
    @@ "auth_bypass" :> "impersonation"
    @@ "hardcoded_creds" :> "data_exfil"
    @@ "info_disclosure" :> "data_exfil"
    @@ "file_upload" :> "file_access"
    @@ "memory_corruption" :> "command_injection"
    @@ "buffer_overflow" :> "command_injection"
    @@ "use_after_free" :> "command_injection"
    @@ "privilege_escalation" :> "impersonation"
    @@ "vulnerability" :> "unknown"
    @@ "injection" :> "command_injection"
    @@ "rce" :> "command_injection"
    @@ "dos" :> "token_exhaustion"
    @@ "malware" :> "indirect_injection"
    @@ "supply_chain" :> "indirect_injection"
    @@ "jailbreak" :> "jailbreak"
    @@ "roleplay" :> "roleplay"
    @@ "data_exfil" :> "data_exfil"
    @@ "data_dump" :> "data_dump"
    @@ "file_access" :> "file_access"
    @@ "context_manipulation" :> "context_manipulation"
    @@ "token_exhaustion" :> "token_exhaustion"
    @@ "goal_hijacking" :> "goal_hijacking"
    @@ "autonomy_abuse" :> "autonomy_abuse"
    @@ "hallucination_injection" :> "hallucination_injection"
    @@ "mcp_injection" :> "mcp_injection"
    @@ "payment_fraud" :> "payment_fraud"
    @@ "impersonation" :> "impersonation"
    @@ "psychological" :> "psychological"
    @@ "social_engineering" :> "social_engineering"
    @@ "obfuscation" :> "obfuscation"
    @@ "multi_turn" :> "multi_turn"
    @@ "indirect_injection" :> "indirect_injection"

\* the cases of the keyword fallback, in the order of the switch
FallbackCases ==
    <<<<{"inject", "override", "ignore", "bypass"}, "instruction_override">>,
      <<{"jailbreak", "dan", "unrestrict", "persona"}, "jailbreak">>,
      <<{"exfil", "extract", "leak", "expose"}, "data_exfil">>,
      <<{"exec", "shell", "command", "code"}, "command_injection">>,
      <<{"obfusc", "encod", "evas"}, "obfuscation">>,
      <<{"social", "manipul", "urgen", "pressure"}, "social_engineering">>,
      <<{"multi", "turn", "crescendo", "escal"}, "multi_turn">>,
      <<{"payment", "fraud", "wallet", "x402"}, "payment_fraud">>,
      <<{"imperson", "authority", "admin"}, "impersonation">>,
      <<{"file", "path", "traversal"}, "file_access">>,
      <<{"mcp", "tool", "agent"}, "mcp_injection">>>>

UpperCase == "ABCDEFGHIJKLMNOPQRSTUVWXYZ"

LowerCase == "abcdefghijklmnopqrstuvwxyz"

\* one byte of categoryToLower: c is a string of one character
categoryToLowerByte(c) ==
    IF \E i \in 1..26 : SubSeq(UpperCase, i, i) = c
    THEN LET i == CHOOSE j \in 1..26 : SubSeq(UpperCase, j, j) = c
         IN  SubSeq(LowerCase, i, i)
    ELSE c

RECURSIVE categoryToLower(_)
categoryToLower(s) ==
    IF Len(s) = 0 THEN ""
    ELSE categoryToLowerByte(SubSeq(s, 1, 1)) \o categoryToLower(SubSeq(s, 2, Len(s)))

categoryContainsSubstr(s, substr) ==
    IF Len(substr) = 0 THEN TRUE
    ELSE IF Len(substr) > Len(s) THEN FALSE
    ELSE \E i \in 0..(Len(s) - Len(substr)) : SubSeq(s, i + 1, i + Len(substr)) = substr

categoryContainsAny(c, substrs) ==
    LET lower == categoryToLower(c)
    IN  \E s \in substrs : categoryContainsSubstr(lower, s)

NormalizeCategory(c) ==
    IF c = "" THEN TISCategoryUnknown
    ELSE IF c \in DOMAIN internalCategoryMapping THEN internalCategoryMapping[c]
    ELSE IF \E i \in 1..Len(FallbackCases) : categoryContainsAny(c, FallbackCases[i][1])
    THEN LET first == CHOOSE i \in 1..Len(FallbackCases) :
                          /\ categoryContainsAny(c, FallbackCases[i][1])
                          /\ \A j \in 1..(i - 1) :
                                 ~categoryContainsAny(c, FallbackCases[j][1])
         IN  FallbackCases[first][2]
    ELSE TISCategoryUnknown

CategoryInit ==
    category = NotCalled

(***************************************************************************)
(* Config discovery (seed_loader.go).  The file system is the set of       *)
(* directories that exist and the set of those that hold an                *)
(* injection_seed.yaml; env is the value of CITADEL_SEED_CONFIG_DIR, the   *)
(* empty string when it is unset.                                          *)
(***************************************************************************)
\* the candidates after the environment variable
FixedCandidates ==
    <<"./config/seeds", "./seeds", "./config", "../config/seeds", "/app/config",
      "/etc/citadel/seeds">>

Candidates(env) ==
    <<env>> \o FixedCandidates

\* os.Stat(filepath.Join(candidate, "injection_seed.yaml")) returns no error
StatSeedFile(fs, candidate) ==
    candidate \in fs.seeded

\* FindConfigDir taking a candidate that exists as a directory
FindConfigDir_ExistingDir(fs, env) ==
    LET candidates == Candidates(env)
        found == {i \in 1..Len(candidates) :
                      candidates[i] # "" /\ candidates[i] \in fs.dirs}
    IN  IF found = {} THEN ""
        ELSE candidates[CHOOSE i \in found : \A j \in found : i <= j]

FindConfigDir(fs, env) ==
    LET candidates == Candidates(env)
        found == {i \in 1..Len(candidates) :
                      candidates[i] # "" /\ StatSeedFile(fs, candidates[i])}
    IN  IF found = {} THEN ""
        ELSE candidates[CHOOSE i \in found : \A j \in found : i <= j]

DiscoveryInit ==
    discovery = NotCalled

(***************************************************************************)
(* The local embedder (local_embedder.go): ready, the session and the      *)
(* pipeline behind the embedder's RWMutex, the goroutines calling          *)
(* EmbedBatch (Embed and EmbedSingle go through it), the one calling Close *)
(* and the one calling IsReady.                                            *)
(***************************************************************************)
NumCallers == 2

MaxCloses == 2

Callers == 1..NumCallers

\* a goroutine that has not called EmbedBatch yet
IdleCaller ==
    [pc |-> "idle", texts |-> "none", afterClose |-> FALSE, ran |-> FALSE,
     ret |-> "none"]

\* NewLocalEmbedder returned an embedder: initialize created the session and
\* the pipeline and set ready
EmbedderInit ==
    embedder = [ready |-> TRUE, session |-> "live", pipeline |-> TRUE,
                mu |-> [writer |-> FALSE, readers |-> 0],
                closed |-> FALSE,
                callers |-> [g \in Callers |-> IdleCaller],
                closer |-> [pc |-> "idle", closes |-> 0],
                reader |-> [pc |-> "idle", afterClose |-> FALSE, ret |-> "none"]]

(***************************************************************************)
(* Model download (multiturn_factory.go, local_embedder.go): the files of  *)
(* the classifier model and of the embedding model on disk, each under its *)
(* own path, the package's downloadMutex, and the goroutines calling       *)
(* EnsureModelDownloaded ("model") or EnsureEmbeddingModelDownloaded       *)
(* ("embedding").                                                          *)
(***************************************************************************)
NumDownloaders == 2

MaxCalls == 3

Downloaders == 1..NumDownloaders

\* the two functions, which also name the path each is called with
EnsureFunctions == {"model", "embedding"}

\* modelFiles, and the same list in EnsureEmbeddingModelDownloaded
modelFiles ==
    <<"model.onnx", "tokenizer.json", "config.json", "tokenizer_config.json",
      "special_tokens_map.json">>

FileIndex == 1..Len(modelFiles)

\* os.Stat of the file succeeds
FileExists(files, f) ==
    files[f] # "absent"

\* ModelExists: model.onnx and tokenizer.json exist
ModelExists(files) ==
    FileExists(files, 1) /\ FileExists(files, 2)

\* the test EnsureEmbeddingModelDownloaded makes: model.onnx exists
EmbeddingModelExists(files) ==
    FileExists(files, 1)

\* the existence test of the function fn on its path
AlreadyThere(fn, files) ==
    IF fn = "model" THEN ModelExists(files) ELSE EmbeddingModelExists(files)

IdleDownloader ==
    [pc |-> "idle", fn |-> "none", file |-> 0, ret |-> "none", fetched |-> FALSE,
     afterSuccess |-> FALSE]

\* nothing downloaded yet, the mutex free
DownloadInit ==
    download = [files |-> [fn \in EnsureFunctions |-> [f \in FileIndex |-> "absent"]],
                tmp |-> [fn \in EnsureFunctions |-> "absent"],
                mutex |-> 0,
                calls |-> 0,
                succeeded |-> [fn \in EnsureFunctions |-> FALSE],
                fetches |-> [fn \in EnsureFunctions |-> [f \in FileIndex |-> 0]],
                callers |-> [g \in Downloaders |-> IdleDownloader]]

LibraryInit ==
    /\ BenignInit
    /\ ContextInit
    /\ CategoryInit
    /\ DiscoveryInit
    /\ EmbedderInit
    /\ DownloadInit

(***************************************************************************)
(* The state machine: one request of one aggregator.                       *)
(***************************************************************************)
Init ==
    /\ signals = <<>>
    /\ result = NoResult
    /\ finding = NoFinding
    /\ ProfileInit
    /\ ScorerInit
    /\ DetectorInit(FALSE)
    /\ LibraryInit

AddSignal(s) ==
    /\ Len(signals) < MaxSignals
    /\ signals' = Append(signals, s)
    /\ result' = NoResult
    /\ UNCHANGED <<finding, profileVars, scorerVars, detectorVars, libraryVars>>

\* the secrets layer classifies the request and adds its marked signal
ScanSecrets(s, f) ==
    /\ finding = NoFinding
    /\ Len(signals) < MaxSignals
    /\ finding' = f
    /\ signals' = Append(signals, [s EXCEPT !.metadata = SecretsMetadata(f)])
    /\ result' = NoResult
    /\ UNCHANGED <<profileVars, scorerVars, detectorVars, libraryVars>>

Aggregate ==
    /\ result' = AggregateResult(signals)
    /\ UNCHANGED <<signals, finding, profileVars, scorerVars, detectorVars, libraryVars>>

Next ==
    \/ \E s \in DetectorSignals : AddSignal(s)
    \/ \E s \in ScannedSignals, f \in Findings : ScanSecrets(s, f)
    \/ Aggregate

Spec == Init /\ [][Next]_vars

(***************************************************************************)
(* Vocabulary of the properties, written over the raw fields of the        *)
(* signals so that no property is stated through the operator it checks.   *)
(***************************************************************************)
Idx == 1..Len(signals)

Returned == result # NoResult

CarriesSecret(s) == \E kv \in s.metadata : kv[1] = "secrets_found" /\ kv[2] = TRUE

SomeSecret == \E i \in Idx : CarriesSecret(signals[i])

HighConf(s) == s.confidence >= 85

Qualifies(s) == s.score >= 95 /\ s.confidence >= 85

SomeHighScore == \E i \in Idx : Qualifies(signals[i])

HighScorePaths == {"TIER_0_HIGH_SCORE_" \o src : src \in Sources}

Tier2Paths == {"TIER_2_OBFUSCATION_VETO", "TIER_2_OBFUSCATION_BOOST"}

SomeHighConf == \E i \in Idx : HighConf(signals[i])

HighConfAgree ==
    \A i, j \in Idx :
        HighConf(signals[i]) /\ HighConf(signals[j]) => signals[i].label = signals[j].label

\* no Tier 0 rule and no Tier 1 rule applies to the signals
BelowTier1 == ~SomeSecret /\ ~SomeHighScore /\ ~(SomeHighConf /\ HighConfAgree)

Observed == \E i \in Idx : signals[i].obfuscation_types # {}

Present(src) == \E i \in Idx : signals[i].source = src

\* the signal GetSignal(src) finds: the first one added from that source
FirstOf(src) ==
    signals[CHOOSE i \in Idx :
                /\ signals[i].source = src
                /\ \A j \in 1..(i - 1) : signals[j].source # src]

\* final_score = n/d
FinalIs(n, d) == result.final_score[1] * d = n * result.final_score[2]

\* final_score >= k/100
FinalGe(k) == result.final_score[1] * 100 >= k * result.final_score[2]

\* C1: whenever some added signal carries secrets_found = true, Aggregate
\* returns TIER_0_SECRETS with final_score 1.0, BLOCK and CRITICAL, whatever
\* the other signals and their order; with no such signal (pii_only alone
\* included) it never returns TIER_0_SECRETS.
C1_SecretsTier0 ==
    Returned =>
        IF SomeSecret
        THEN /\ result.decision_path = "TIER_0_SECRETS"
             /\ FinalIs(1, 1)
             /\ result.action = "BLOCK"
             /\ result.risk_level = "CRITICAL"
        ELSE result.decision_path # "TIER_0_SECRETS"

\* a secret marked on the second signal, behind a high-score, high-confidence
\* first signal, still decides
C1_Witness ==
    /\ Returned
    /\ Len(signals) = 2
    /\ Qualifies(signals[1]) /\ ~CarriesSecret(signals[1])
    /\ CarriesSecret(signals[2])
    /\ result.decision_path = "TIER_0_SECRETS"

\* C2: the secrets layer yields a TIER_0_SECRETS block iff the input has
\* credentials, or PII under strict, or PII under standard without a trusted
\* context; credentials block under every sensitivity and PII-only input
\* under tolerant is never blocked on TIER_0_SECRETS.
C2_SensitivityGate ==
    (Returned /\ finding # NoFinding) =>
        /\ result.decision_path = "TIER_0_SECRETS"
             <=> \/ finding.has_credentials
                 \/ finding.has_pii /\ finding.sensitivity = "strict"
                 \/ /\ finding.has_pii
                    /\ finding.sensitivity = "standard"
                    /\ ~finding.trusted_context
        /\ finding.has_credentials => result.action = "BLOCK"
        /\ (finding.has_pii /\ ~finding.has_credentials /\ finding.sensitivity = "tolerant")
             => ~(result.action = "BLOCK" /\ result.decision_path = "TIER_0_SECRETS")

\* strict blocks PII-only input in a trusted context
C2_Witness ==
    /\ Returned
    /\ finding # NoFinding
    /\ finding.sensitivity = "strict"
    /\ finding.has_pii /\ ~finding.has_credentials /\ finding.trusted_context
    /\ result.decision_path = "TIER_0_SECRETS"

\* C3: on every decision path the action is the threshold table applied to
\* final_score: BLOCK iff >= 0.70, WARN iff in [0.40, 0.70), ALLOW iff < 0.40.
C3_ActionMatchesScore ==
    Returned =>
        /\ result.action = "BLOCK" <=> FinalGe(70)
        /\ result.action = "WARN" <=> (FinalGe(40) /\ ~FinalGe(70))
        /\ result.action = "ALLOW" <=> ~FinalGe(40)

\* a Tier 0 path, which sets the action without the table
C3_Witness ==
    /\ Returned
    /\ result.decision_path \in HighScorePaths
    /\ result.action = "BLOCK"
    /\ FinalIs(95, 100)

\* C4: on every decision path risk_level is the risk table applied to
\* final_score: >= 0.90 CRITICAL, >= 0.70 HIGH, >= 0.50 MEDIUM, >= 0.30 LOW,
\* else MINIMAL.
C4_RiskMatchesScore ==
    Returned =>
        result.risk_level =
            IF FinalGe(90) THEN "CRITICAL"
            ELSE IF FinalGe(70) THEN "HIGH"
            ELSE IF FinalGe(50) THEN "MEDIUM"
            ELSE IF FinalGe(30) THEN "LOW"
            ELSE "MINIMAL"

\* a Tier 0 path, which hard-codes CRITICAL, over a signal of low score
C4_Witness ==
    /\ Returned
    /\ result.decision_path = "TIER_0_SECRETS"
    /\ result.risk_level = "CRITICAL"
    /\ \E i \in Idx : signals[i].score < 30

\* C5: with no secrets_found signal and some signal of score >= 0.95 and
\* confidence >= 0.85, Aggregate returns BLOCK, CRITICAL, that signal's score
\* and TIER_0_HIGH_SCORE_<its source>, also when the high-confidence signals
\* agree on a label or obfuscation is present.
C5_HighScorePrecedence ==
    (Returned /\ ~SomeSecret /\ SomeHighScore) =>
        /\ result.action = "BLOCK"
        /\ result.risk_level = "CRITICAL"
        /\ \E i \in Idx :
              /\ Qualifies(signals[i])
              /\ FinalIs(signals[i].score, 100)
              /\ result.decision_path = "TIER_0_HIGH_SCORE_" \o signals[i].source

\* the Tier 1 condition and the Tier 2 condition both hold, Tier 0 decides
C5_Witness ==
    /\ Returned
    /\ result.decision_path \in HighScorePaths
    /\ Len(signals) = 2
    /\ HighConf(signals[1]) /\ HighConf(signals[2]) /\ HighConfAgree
    /\ Observed

\* the signal lists that hold the same signals as `signals` in another order
Reorderings ==
    LET n == Len(signals)
        Perms == {p \in [1..n -> 1..n] : \A i, j \in 1..n : p[i] = p[j] => i = j}
    IN {[i \in 1..n |-> signals[p[i]]] : p \in Perms}

\* C6: two sequences of AddSignal calls that add the same signals in a
\* different order get the same final_score, action, risk_level,
\* decision_path and escalation_needed from Aggregate.
C6_OrderIndependent ==
    Returned =>
        \A other \in Reorderings :
            LET r == AggregateResult(other)
            IN /\ r.final_score = result.final_score
               /\ r.action = result.action
               /\ r.risk_level = result.risk_level
               /\ r.decision_path = result.decision_path
               /\ r.escalation_needed = result.escalation_needed

\* the order heuristic < semantic < bert < safeguard < llm; 0 for a source
\* the order does not name
SourceRank(src) ==
    CASE src = "heuristic" -> 1
      [] src = "semantic" -> 2
      [] src = "bert" -> 3
      [] src = "safeguard" -> 4
      [] src = "llm" -> 5
      [] OTHER -> 0

\* the high-confidence signals of maximum confidence
TopTied ==
    {i \in Idx : HighConf(signals[i])
                 /\ \A j \in Idx : signals[i].confidence >= signals[j].confidence}

\* C7: in Tier 1, when two or more high-confidence signals share the maximum
\* confidence, final_score is the score of the one whose source is latest
\* in heuristic < semantic < bert < safeguard < llm.
C7_SourceOrderTieBreak ==
    (/\ Returned
     /\ result.decision_path = "TIER_1_HIGH_CONFIDENCE_AGREEMENT"
     /\ Cardinality(TopTied) >= 2
     /\ \A i \in TopTied : SourceRank(signals[i].source) > 0) =>
        \E i \in TopTied :
            /\ \A j \in TopTied : SourceRank(signals[i].source) >= SourceRank(signals[j].source)
            /\ FinalIs(signals[i].score, 100)

Tier3Path == "TIER_3_WEIGHTED_AGGREGATION"

\* C8: with no Tier 0 rule, some signal of confidence >= 0.85 and all such
\* signals of one label, Aggregate returns TIER_1_HIGH_CONFIDENCE_AGREEMENT
\* and the score of a signal of maximum confidence; when two high-confidence
\* signals differ in label the decision is left to Tier 2 or Tier 3.
C8_HighConfidenceAgreement ==
    (Returned /\ ~SomeSecret /\ ~SomeHighScore) =>
        /\ (SomeHighConf /\ HighConfAgree) =>
              /\ result.decision_path = "TIER_1_HIGH_CONFIDENCE_AGREEMENT"
              /\ \E i \in TopTied : FinalIs(signals[i].score, 100)
        /\ (SomeHighConf /\ ~HighConfAgree) =>
              result.decision_path \in Tier2Paths \cup {Tier3Path}

\* the top signal was added after a high-confidence signal of lower
\* confidence and another score
C8_Witness ==
    /\ Returned
    /\ result.decision_path = "TIER_1_HIGH_CONFIDENCE_AGREEMENT"
    /\ Len(signals) = 2
    /\ HighConf(signals[1])
    /\ signals[2].confidence > signals[1].confidence
    /\ signals[2].score # signals[1].score
    /\ FinalIs(signals[2].score, 100)

\* min(1.0, h x 1.3) for a heuristic score h in hundredths
FinalIsBoosted(h) ==
    IF h * 13 > 1000 THEN FinalIs(1, 1) ELSE FinalIs(h * 13, 1000)

\* obfuscation seen, heuristic and BERT present, BERT says SAFE below the
\* high-confidence threshold
VetoSetting ==
    /\ Observed
    /\ Present("heuristic")
    /\ Present("bert")
    /\ FirstOf("bert").label = "SAFE"
    /\ FirstOf("bert").confidence < 85

VetoResult ==
    result.decision_path = "TIER_2_OBFUSCATION_VETO" =>
        /\ FinalIsBoosted(FirstOf("heuristic").score)
        /\ result.escalation_needed = "deeper_go"

\* C9 as stated: below Tier 1 the veto path is returned exactly when the
\* veto setting holds and the heuristic score is >= 0.5.
C9_VetoAtHeuristicHalf ==
    (Returned /\ BelowTier1) =>
        /\ result.decision_path = "TIER_2_OBFUSCATION_VETO"
             <=> (VetoSetting /\ FirstOf("heuristic").score >= 50)
        /\ VetoResult

\* C9 amended: below Tier 1 the veto path is returned exactly when the veto
\* setting holds and the boosted heuristic score min(1.0, h x 1.3) is >= 0.5;
\* the result then has that boosted score and escalation_needed = deeper_go.
C9_VetoAtBoostedHalf ==
    (Returned /\ BelowTier1) =>
        /\ result.decision_path = "TIER_2_OBFUSCATION_VETO"
             <=> (VetoSetting /\ FirstOf("heuristic").score * 13 >= 500)
        /\ VetoResult

\* the veto fires on a heuristic score below 0.5
C9_Witness ==
    /\ Returned
    /\ result.decision_path = "TIER_2_OBFUSCATION_VETO"
    /\ FirstOf("heuristic").score < 50
    /\ result.escalation_needed = "deeper_go"

\* C10: below Tier 1 and without a veto, with obfuscation seen, heuristic and
\* BERT present, BERT INJECTION and heuristic score >= 0.4, Aggregate returns
\* TIER_2_OBFUSCATION_BOOST with min(1.0, (bert + heuristic)/2 x 1.3) and no
\* escalation; a TIER_2 path is never returned without obfuscation.
C10_ObfuscationBoost ==
    Returned =>
        /\ (/\ BelowTier1
            /\ Observed
            /\ Present("heuristic")
            /\ Present("bert")
            /\ FirstOf("bert").label = "INJECTION"
            /\ FirstOf("heuristic").score >= 40
            /\ result.decision_path # "TIER_2_OBFUSCATION_VETO") =>
               LET sum == FirstOf("bert").score + FirstOf("heuristic").score
               IN /\ result.decision_path = "TIER_2_OBFUSCATION_BOOST"
                  /\ IF sum * 13 > 2000 THEN FinalIs(1, 1) ELSE FinalIs(sum * 13, 2000)
                  /\ result.escalation_needed = ""
        /\ result.decision_path \in Tier2Paths => (result.was_deobfuscated /\ Observed)
        /\ ~result.was_deobfuscated => result.decision_path \notin Tier2Paths

\* the boost fires at the heuristic boundary 0.4
C10_Witness ==
    /\ Returned
    /\ result.decision_path = "TIER_2_OBFUSCATION_BOOST"
    /\ FirstOf("heuristic").score = 40
    /\ FirstOf("bert").label = "INJECTION"
    /\ result.escalation_needed = ""

\* final_score <= k/100
FinalLe(k) == result.final_score[1] * 100 <= k * result.final_score[2]

\* final_score = n/d, for large n and d: as the fraction in lowest terms
FinalReduced(n, d) == result.final_score = Rat(n, d)

\* sum of score x weight x confidence over the first n signals (in 10^-6)
RECURSIVE ScoreMass(_)
ScoreMass(n) ==
    IF n = 0 THEN 0
    ELSE ScoreMass(n - 1) + signals[n].score * signals[n].weight * signals[n].confidence

\* sum of weight x confidence over the first n signals (in 10^-4)
RECURSIVE Mass(_)
Mass(n) ==
    IF n = 0 THEN 0
    ELSE Mass(n - 1) + signals[n].weight * signals[n].confidence

OnTier3 == Returned /\ result.decision_path = Tier3Path

\* C11: on the TIER_3_WEIGHTED_AGGREGATION path without obfuscation,
\* final_score = SUM(score x weight x confidence) / SUM(weight x confidence)
\* over all signals, 0 with no signals or a zero SUM(weight x confidence),
\* and, the sum being positive, it lies between the minimum and the maximum
\* signal score.
C11_WeightedFusion ==
    (OnTier3 /\ ~Observed) =>
        LET n == Len(signals)
        IN IF n = 0 \/ Mass(n) = 0
           THEN FinalIs(0, 1)
           ELSE /\ FinalReduced(ScoreMass(n), 100 * Mass(n))
                /\ \E i \in Idx : FinalGe(signals[i].score)
                /\ \E i \in Idx : FinalLe(signals[i].score)

\* two signals of different score and different weight x confidence are
\* fused to a score strictly between the two
C11_Witness ==
    /\ OnTier3 /\ ~Observed
    /\ Len(signals) = 2
    /\ signals[1].score < signals[2].score
    /\ signals[1].weight * signals[1].confidence
         # signals[2].weight * signals[2].confidence
    /\ signals[1].weight * signals[1].confidence > 0
    /\ ~FinalLe(signals[1].score)
    /\ ~FinalGe(signals[2].score)

\* a single signal of zero confidence: the fused score is 0, not a quotient
C11_ZeroWeightReached ==
    /\ OnTier3
    /\ Len(signals) = 1
    /\ signals[1].score > 0
    /\ Mass(1) = 0
    /\ FinalIs(0, 1)

\* the unboosted fused score of the signals is >= k/100, resp. <= k/100
\* (0 when SUM(weight x confidence) is 0)
FusedGe(k) == ScoreMass(Len(signals)) >= k * Mass(Len(signals))

FusedLe(k) == ScoreMass(Len(signals)) <= k * Mass(Len(signals))

\* final_score is the unboosted fused score
FinalIsFused ==
    IF Mass(Len(signals)) = 0 THEN FinalIs(0, 1)
    ELSE FinalReduced(ScoreMass(Len(signals)), 100 * Mass(Len(signals)))

\* final_score is min(1.0, fused x 1.3)
FinalIsFusedBoosted ==
    IF ScoreMass(Len(signals)) * 13 > 1000 * Mass(Len(signals))
    THEN FinalIs(1, 1)
    ELSE FinalReduced(ScoreMass(Len(signals)) * 13, 1000 * Mass(Len(signals)))

\* C12 as stated: on the Tier 3 path the fused score is multiplied by
\* obfuscation_boost and clamped to 1.0 exactly when obfuscation was
\* observed and the fused score lies in the closed interval [0.3, 0.7].
C12_BoostClosedBand ==
    OnTier3 =>
        IF Observed /\ Mass(Len(signals)) > 0 /\ FusedGe(30) /\ FusedLe(70)
        THEN FinalIsFusedBoosted
        ELSE FinalIsFused

\* C12 amended: on the Tier 3 path the fused score is multiplied by
\* obfuscation_boost and clamped to 1.0 exactly when obfuscation was
\* observed and the fused score lies in the half-open interval [0.3, 0.7):
\* 0.3 is boosted, 0.7 is not; elsewhere final_score is the fused score.
C12_BoostHalfOpenBand ==
    OnTier3 =>
        IF Observed /\ Mass(Len(signals)) > 0 /\ FusedGe(30) /\ ~FusedGe(70)
        THEN FinalIsFusedBoosted
        ELSE FinalIsFused

\* obfuscation seen, the high-confidence signals disagree, and the fused
\* score is exactly 0.7: it is returned unboosted
C12_Witness ==
    /\ OnTier3
    /\ Observed
    /\ Len(signals) = 2
    /\ signals[1].confidence >= 85 /\ signals[2].confidence >= 85
    /\ FusedGe(70) /\ FusedLe(70)
    /\ FinalIs(70, 100)

\* the lower endpoint: a fused score of exactly 0.3 is boosted to 0.39
C12_LowerEndpointReached ==
    /\ OnTier3
    /\ Observed
    /\ FusedGe(30) /\ FusedLe(30)
    /\ FinalIs(39, 100)

\* the two sums over the first n signals, leaving out those labelled UNKNOWN
RECURSIVE KnownScoreMass(_)
KnownScoreMass(n) ==
    IF n = 0 THEN 0
    ELSE KnownScoreMass(n - 1)
         + (IF signals[n].label = "UNKNOWN" THEN 0
            ELSE signals[n].score * signals[n].weight * signals[n].confidence)

RECURSIVE KnownMass(_)
KnownMass(n) ==
    IF n = 0 THEN 0
    ELSE KnownMass(n - 1)
         + (IF signals[n].label = "UNKNOWN" THEN 0
            ELSE signals[n].weight * signals[n].confidence)

\* C13: a signal labelled UNKNOWN is listed in AggregatedResult.signals but
\* does not count in the fusion: the Tier 3 fused final_score is the one of
\* the signals that are not labelled UNKNOWN, whatever the score, weight and
\* confidence of the UNKNOWN ones.
C13_UnknownNotFused ==
    (OnTier3 /\ ~Observed) =>
        /\ result.signals = signals
        /\ IF KnownMass(Len(signals)) = 0
           THEN FinalIs(0, 1)
           ELSE FinalReduced(KnownScoreMass(Len(signals)), 100 * KnownMass(Len(signals)))

\* a BERT and a heuristic signal are present and either their scores differ
\* by more than 0.3, or BERT says SAFE with confidence below 0.70 while
\* obfuscation was observed
BertHeuristicConflict ==
    /\ Present("bert")
    /\ Present("heuristic")
    /\ \/ FirstOf("bert").score - FirstOf("heuristic").score > 30
       \/ FirstOf("heuristic").score - FirstOf("bert").score > 30
       \/ /\ FirstOf("bert").confidence < 70
          /\ Observed
          /\ FirstOf("bert").label = "SAFE"

\* the unboosted fused score is in the ambiguous band [0.40, 0.70]
FusedInBand == Mass(Len(signals)) > 0 /\ FusedGe(40) /\ FusedLe(70)

C14_DisagreementIgnoredReached ==
    /\ OnTier3
    /\ FusedInBand
    /\ SomeHighConf /\ ~HighConfAgree
    /\ ~Present("safeguard")
    /\ result.escalation_needed = ""

\* BERT is present with confidence below 0.70
BertUnsure == Present("bert") /\ FirstOf("bert").confidence < 70

\* the condition of the safeguard escalation holds and no safeguard signal
\* is present
SafeguardApplies ==
    /\ BertHeuristicConflict \/ (FusedInBand /\ ~SomeHighConf)
    /\ ~Present("safeguard")

\* an unsure BERT is contradicted: SAFE under obfuscation, INJECTION with a
\* heuristic score below 0.3, or SAFE with a heuristic score above 0.4
BertContradicted ==
    /\ BertUnsure
    /\ \/ Observed /\ FirstOf("bert").label = "SAFE"
       \/ /\ Present("heuristic")
          /\ \/ FirstOf("bert").label = "INJECTION" /\ FirstOf("heuristic").score < 30
             \/ FirstOf("bert").label = "SAFE" /\ FirstOf("heuristic").score > 40

\* C15 as stated: on the Tier 3 path, with a BERT signal of confidence below
\* 0.70 whose score differs from the heuristic score by more than 0.3, or
\* whose label is SAFE while obfuscation was observed, and no deeper_go
\* signal, Aggregate sets escalation_needed = deeper_go.
C15_DeeperGoOnContradiction ==
    (/\ OnTier3
     /\ BertUnsure
     /\ \/ /\ Present("heuristic")
           /\ \/ FirstOf("bert").score - FirstOf("heuristic").score > 30
              \/ FirstOf("heuristic").score - FirstOf("bert").score > 30
        \/ Observed /\ FirstOf("bert").label = "SAFE"
     /\ ~Present("deeper_go")) =>
        result.escalation_needed = "deeper_go"

\* C15 amended: on the Tier 3 path Aggregate sets escalation_needed =
\* deeper_go exactly when the safeguard escalation does not apply, an unsure
\* BERT is contradicted and no deeper_go signal is present; where the
\* safeguard escalation applies it takes precedence.
C15_DeeperGoAfterSafeguard ==
    OnTier3 =>
        /\ result.escalation_needed = "deeper_go"
             <=> (~SafeguardApplies /\ BertContradicted /\ ~Present("deeper_go"))
        /\ SafeguardApplies => result.escalation_needed = "safeguard"

\* an unsure SAFE from BERT against a suspicious heuristic score, the fused
\* score outside the band: the deeper Go analysis is requested
C15_Witness ==
    /\ OnTier3
    /\ BertUnsure
    /\ FirstOf("bert").label = "SAFE"
    /\ Present("heuristic") /\ FirstOf("heuristic").score > 40
    /\ ~Present("safeguard") /\ ~Present("deeper_go")
    /\ result.escalation_needed = "deeper_go"

(***************************************************************************)
(* The escalation driver.  A request starts with the heuristic and the     *)
(* BERT signal; whenever Aggregate asks for an escalation the driver adds  *)
(* one signal of the requested source and runs Aggregate again.            *)
(***************************************************************************)
MaxRounds == 2

FirstPass == {<<h, b>> : h \in HeuristicSignals, b \in BertSignals}

InitEscalation ==
    /\ signals \in FirstPass
    /\ result = NoResult
    /\ finding = NoFinding
    /\ ProfileInit
    /\ ScorerInit
    /\ DetectorInit(FALSE)
    /\ LibraryInit

Escalate(s) ==
    /\ result # NoResult
    /\ result.escalation_needed = s.source
    /\ Len(signals) < 2 + MaxRounds
    /\ signals' = Append(signals, s)
    /\ result' = NoResult
    /\ UNCHANGED <<finding, profileVars, scorerVars, detectorVars, libraryVars>>

NextEscalation ==
    \/ \E s \in ArbiterSignals : Escalate(s)
    \/ Aggregate

SpecEscalation == InitEscalation /\ [][NextEscalation]_vars

\* C16: once the safeguard's signal has been added and Aggregate is re-run,
\* no further escalation is requested: for every signal set that contains a
\* safeguard signal Aggregate returns escalation_needed = none.
C16_NoEscalationAfterSafeguard ==
    (Returned /\ Present("safeguard")) => result.escalation_needed = ""

\* the safeguard answered a Tier 3 request and Aggregate asks for deeper_go
C16_ReescalationReached ==
    /\ OnTier3
    /\ Len(signals) = 3
    /\ signals[3].source = "safeguard"
    /\ result.escalation_needed = "deeper_go"

ActionNames == {"ALLOW", "WARN", "BLOCK"}

RiskLevels == {"MINIMAL", "LOW", "MEDIUM", "HIGH", "CRITICAL"}

DecisionPaths ==
    {"TIER_0_SECRETS", "TIER_1_HIGH_CONFIDENCE_AGREEMENT", "TIER_2_OBFUSCATION_VETO",
     "TIER_2_OBFUSCATION_BOOST", "TIER_3_WEIGHTED_AGGREGATION"}
    \cup {"TIER_0_HIGH_SCORE_" \o signals[i].source : i \in Idx}

\* C17: for every set of completed signals, the empty set and a
\* heuristic-only set included, Aggregate returns a result with final_score
\* in [0,1], action in {ALLOW, WARN, BLOCK}, risk_level in {MINIMAL, LOW,
\* MEDIUM, HIGH, CRITICAL} and one of the six decision paths; with no
\* signals the result is 0, ALLOW, MINIMAL, TIER_3_WEIGHTED_AGGREGATION.
C17_GracefulDegradation ==
    Returned =>
        /\ result.final_score[2] > 0
        /\ result.final_score[1] >= 0
        /\ result.final_score[1] <= result.final_score[2]
        /\ result.action \in ActionNames
        /\ result.risk_level \in RiskLevels
        /\ result.decision_path \in DecisionPaths
        /\ Len(signals) = 0 =>
              /\ FinalIs(0, 1)
              /\ result.action = "ALLOW"
              /\ result.risk_level = "MINIMAL"
              /\ result.decision_path = Tier3Path

\* Aggregate on no signal at all
C17_Witness ==
    /\ Returned
    /\ Len(signals) = 0
    /\ result.action = "ALLOW"
    /\ result.risk_level = "MINIMAL"
    /\ result.decision_path = Tier3Path

\* Aggregate on the heuristic signal alone
C17_HeuristicOnlyReached ==
    /\ Returned
    /\ Len(signals) = 1
    /\ signals[1].source = "heuristic"
    /\ result.action \in ActionNames

(***************************************************************************)
(* Verdicts under a detection profile: a profile is looked up by name and  *)
(* one score is decided by ProfiledDecision, by ToAction with the          *)
(* profile's thresholds, and by the aggregator's scoreToAction.            *)
(***************************************************************************)
ProfileNames ==
    {"strict", "Strict", "balanced", "BALANCED", "default", "", "permissive",
     "creative", "educational", "code_assistant", "code", "dev", "ai_safety",
     "research", "Red_Team", "custom"}

\* the scores decided, in hundredths
MaxScore == 100

InitProfile ==
    /\ signals = <<>>
    /\ result = NoResult
    /\ finding = NoFinding
    /\ ProfileInit
    /\ ScorerInit
    /\ DetectorInit(FALSE)
    /\ LibraryInit

SelectProfile(name) ==
    /\ profileName' = name
    /\ profile' = GetProfile(name)
    /\ decision' = NoDecision
    /\ UNCHANGED <<aggregatorVars, scorerVars, detectorVars, libraryVars>>

Decide(score) ==
    /\ profile # NoProfile
    /\ decision' = [score |-> score,
                    profiled |-> ProfiledDecision(score, profile),
                    toAction |-> ToAction(score, profile.WarnThreshold,
                                          profile.BlockThreshold),
                    aggregator |-> scoreToAction(Rat(score, 100))]
    /\ UNCHANGED <<profileName, profile, aggregatorVars, scorerVars, detectorVars, libraryVars>>

\* ProfiledDecision called without a profile
DecideDefault(score) ==
    /\ profile = NoProfile
    /\ decision' = [score |-> score,
                    profiled |-> ProfiledDecision(score, NoProfile),
                    toAction |-> ToAction(score, ProfileBalanced.WarnThreshold,
                                          ProfileBalanced.BlockThreshold),
                    aggregator |-> scoreToAction(Rat(score, 100))]
    /\ UNCHANGED <<profileName, profile, aggregatorVars, scorerVars, detectorVars, libraryVars>>

NextProfile ==
    \/ \E name \in ProfileNames : SelectProfile(name)
    \/ \E score \in 0..MaxScore : Decide(score)
    \/ \E score \in 0..MaxScore : DecideDefault(score)

SpecProfile == InitProfile /\ [][NextProfile]_vars

\* the names for which GetProfile is said to return the balanced profile
BalancedNames == {"balanced", "BALANCED", "default", "", "custom"}

Decided == decision # NoDecision

\* the threshold table with the given warn and block thresholds
Verdict(score, warn, block) ==
    CASE score >= block -> "BLOCK"
      [] score < block /\ score >= warn -> "WARN"
      [] OTHER -> "ALLOW"

\* C18 as stated: GetProfile returns the balanced profile for 'balanced',
\* 'default', '' and unknown names, its block_threshold is 0.70 and its
\* warn_threshold 0.40, and for every score ProfiledDecision and ToAction
\* under it return the verdict of the aggregator's scoreToAction.
C18_BalancedIsAggregatorTable ==
    (profileName \in BalancedNames) =>
        /\ profile.Name = "balanced"
        /\ profile.BlockThreshold = 70
        /\ profile.WarnThreshold = 40
        /\ Decided =>
              /\ decision.profiled = decision.aggregator
              /\ decision.toAction = decision.aggregator

\* C18 amended: GetProfile returns the balanced profile for 'balanced',
\* 'default', '' and unknown names; its block_threshold is 0.75 and its
\* warn_threshold 0.55; ProfiledDecision and ToAction under it return the
\* same verdict for every score, which is the verdict of scoreToAction
\* exactly for the scores outside [0.40, 0.55) and [0.70, 0.75).
C18_BalancedThresholds ==
    (profileName \in BalancedNames) =>
        /\ profile.Name = "balanced"
        /\ profile.BlockThreshold = 75
        /\ profile.WarnThreshold = 55
        /\ Decided =>
              /\ decision.profiled = Verdict(decision.score, 55, 75)
              /\ decision.toAction = decision.profiled
              /\ decision.aggregator = Verdict(decision.score, 40, 70)
              /\ decision.profiled = decision.aggregator
                   <=> ~(\/ decision.score >= 40 /\ decision.score < 55
                         \/ decision.score >= 70 /\ decision.score < 75)

\* an unknown name, a score of 0.70: the profile warns, the aggregator blocks
C18_Witness ==
    /\ profileName = "custom"
    /\ Decided
    /\ decision.score = 70
    /\ decision.profiled = "WARN"
    /\ decision.toAction = "WARN"
    /\ decision.aggregator = "BLOCK"

(***************************************************************************)
(* The scorer configuration under concurrency: one goroutine loads and     *)
(* resets the configuration while the goroutine of a request calls the     *)
(* three getters one after the other.  Every Lock, RLock and unlock of     *)
(* scorerConfigMu is a step.                                               *)
(***************************************************************************)
MaxLoads == 2

InitScorer ==
    /\ signals = <<>>
    /\ result = NoResult
    /\ finding = NoFinding
    /\ ProfileInit
    /\ ScorerInit
    /\ DetectorInit(FALSE)
    /\ LibraryInit

\* a LoadScorerConfig that goes on to store what yaml.Unmarshal left in
\* config when the file is malformed
LoadScorerConfigRead_StoreOnError(outcome, parsed) ==
    /\ loader.pc = "idle"
    /\ loader.loads < MaxLoads
    /\ loader' =
         CASE outcome = "missing" ->
                [loader EXCEPT !.file = outcome, !.returned = "nil"]
           [] outcome = "unreadable" ->
                [loader EXCEPT !.file = outcome, !.returned = "error"]
           [] outcome \in {"malformed", "parsed"} ->
                [loader EXCEPT !.pc = "load_lock",
                               !.file = outcome,
                               !.loads = IF outcome = "parsed" THEN @ + 1 ELSE @,
                               !.returned = "none",
                               !.config = [id |-> loader.loads + 1,
                                           KeywordWeights |-> parsed.KeywordWeights,
                                           CryptoPatterns |-> parsed.CryptoPatterns,
                                           BenignPatterns |-> parsed.BenignPatterns]]
    /\ UNCHANGED <<scorerConfig, scorerConfigMu, request>>
    /\ UNCHANGED <<aggregatorVars, profileVars, detectorVars, libraryVars>>

\* LoadScorerConfig up to scorerConfigMu.Lock(): the file is read and
\* parsed into a local config; a missing file returns nil, an unreadable or
\* malformed one an error, both without touching scorerConfig
LoadScorerConfigRead(outcome, parsed) ==
    /\ loader.pc = "idle"
    /\ loader.loads < MaxLoads
    /\ loader' =
         CASE outcome = "missing" ->
                [loader EXCEPT !.file = outcome, !.returned = "nil"]
           [] outcome \in {"unreadable", "malformed"} ->
                [loader EXCEPT !.file = outcome, !.returned = "error"]
           [] outcome = "parsed" ->
                [loader EXCEPT !.pc = "load_lock",
                               !.file = outcome,
                               !.loads = @ + 1,
                               !.returned = "none",
                               !.config = [id |-> loader.loads + 1,
                                           KeywordWeights |-> parsed.KeywordWeights,
                                           CryptoPatterns |-> parsed.CryptoPatterns,
                                           BenignPatterns |-> parsed.BenignPatterns]]
    /\ UNCHANGED <<scorerConfig, scorerConfigMu, request>>
    /\ UNCHANGED <<aggregatorVars, profileVars, detectorVars, libraryVars>>

\* scorerConfigMu.Lock()
LoadScorerConfigLock ==
    /\ loader.pc = "load_lock"
    /\ ~scorerConfigMu.writer /\ scorerConfigMu.readers = 0
    /\ scorerConfigMu' = [scorerConfigMu EXCEPT !.writer = TRUE]
    /\ loader' = [loader EXCEPT !.pc = "load_store"]
    /\ UNCHANGED <<scorerConfig, request>>
    /\ UNCHANGED <<aggregatorVars, profileVars, detectorVars, libraryVars>>

\* scorerConfig = &config
LoadScorerConfigStore ==
    /\ loader.pc = "load_store"
    /\ scorerConfig' = loader.config
    /\ loader' = [loader EXCEPT !.pc = "load_unlock"]
    /\ UNCHANGED <<scorerConfigMu, request>>
    /\ UNCHANGED <<aggregatorVars, profileVars, detectorVars, libraryVars>>

\* scorerConfigMu.Unlock(); return nil
LoadScorerConfigUnlock ==
    /\ loader.pc = "load_unlock"
    /\ scorerConfigMu' = [scorerConfigMu EXCEPT !.writer = FALSE]
    /\ loader' = [loader EXCEPT !.pc = "idle", !.returned = "nil"]
    /\ UNCHANGED <<scorerConfig, request>>
    /\ UNCHANGED <<aggregatorVars, profileVars, detectorVars, libraryVars>>

\* ResetScorerConfig: scorerConfigMu.Lock()
ResetScorerConfigLock ==
    /\ loader.pc = "idle"
    /\ ~scorerConfigMu.writer /\ scorerConfigMu.readers = 0
    /\ scorerConfigMu' = [scorerConfigMu EXCEPT !.writer = TRUE]
    /\ loader' = [loader EXCEPT !.pc = "reset_store", !.file = "none",
                                !.returned = "none"]
    /\ UNCHANGED <<scorerConfig, request>>
    /\ UNCHANGED <<aggregatorVars, profileVars, detectorVars, libraryVars>>

\* scorerConfig = nil
ResetScorerConfigStore ==
    /\ loader.pc = "reset_store"
    /\ scorerConfig' = NoConfig
    /\ loader' = [loader EXCEPT !.pc = "reset_unlock"]
    /\ UNCHANGED <<scorerConfigMu, request>>
    /\ UNCHANGED <<aggregatorVars, profileVars, detectorVars, libraryVars>>

\* scorerConfigMu.Unlock()
ResetScorerConfigUnlock ==
    /\ loader.pc = "reset_unlock"
    /\ scorerConfigMu' = [scorerConfigMu EXCEPT !.writer = FALSE]
    /\ loader' = [loader EXCEPT !.pc = "idle"]
    /\ UNCHANGED <<scorerConfig, request>>
    /\ UNCHANGED <<aggregatorVars, profileVars, detectorVars, libraryVars>>

\* a getter's scorerConfigMu.RLock()
GetterRLock ==
    /\ request.pc = "call"
    /\ ~scorerConfigMu.writer
    /\ scorerConfigMu' = [scorerConfigMu EXCEPT !.readers = @ + 1]
    /\ request' = [request EXCEPT !.pc = "read"]
    /\ UNCHANGED <<scorerConfig, loader>>
    /\ UNCHANGED <<aggregatorVars, profileVars, detectorVars, libraryVars>>

\* the getter reads scorerConfig and returns the table or its fallback; the
\* deferred RUnlock runs; the request goes on to its next getter
GetterReturn ==
    /\ request.pc = "read"
    /\ scorerConfigMu' = [scorerConfigMu EXCEPT !.readers = @ - 1]
    /\ request' =
         [pc |-> IF request.table = Len(Tables) THEN "done" ELSE "call",
          table |-> IF request.table = Len(Tables) THEN request.table
                    ELSE request.table + 1,
          seen |-> Append(request.seen,
                          [config |-> scorerConfig.id,
                           table |-> TableOf(Tables[request.table], scorerConfig)])]
    /\ UNCHANGED <<scorerConfig, loader>>
    /\ UNCHANGED <<aggregatorVars, profileVars, detectorVars, libraryVars>>

NextScorer ==
    \/ \E outcome \in FileOutcomes, parsed \in ParsedConfigs :
           LoadScorerConfigRead(outcome, parsed)
    \/ LoadScorerConfigLock
    \/ LoadScorerConfigStore
    \/ LoadScorerConfigUnlock
    \/ ResetScorerConfigLock
    \/ ResetScorerConfigStore
    \/ ResetScorerConfigUnlock
    \/ GetterRLock
    \/ GetterReturn

SpecScorer == InitScorer /\ [][NextScorer]_vars

\* C19: a request that reads several scorer tables while LoadScorerConfig or
\* ResetScorerConfig runs observes all of them from one and the same config
\* version, never tables from two different versions; the config a reader
\* finds is nil or a fully parsed one.
C19_OneVersionPerRequest ==
    /\ \A i, j \in 1..Len(request.seen) :
           request.seen[i].config = request.seen[j].config
    /\ scorerConfig = NoConfig
         \/ (scorerConfig.id \in 1..loader.loads
             /\ DOMAIN scorerConfig
                  = {"id", "KeywordWeights", "CryptoPatterns", "BenignPatterns"})

\* the request read the keyword weights of one load and the benign patterns
\* of the next
C19_MixedVersionsReached ==
    /\ request.pc = "done"
    /\ request.seen[1].table = <<"KeywordWeights", 1>>
    /\ request.seen[3].table = <<"BenignPatterns", 2>>

\* no reader holds the lock while the writer does
ScorerMutualExclusion ==
    ~(scorerConfigMu.writer /\ scorerConfigMu.readers > 0)

(***************************************************************************)
(* The hybrid detector under concurrency: one goroutine calls Detect, one  *)
(* SetWeights and one EnableSemantic, as in                                *)
(* TestHybridDetector_ConcurrentDetectAndSetWeights.  Every acquisition    *)
(* and release of the detector's lock and every read or write of a field   *)
(* is a step.                                                              *)
(***************************************************************************)
InitDetector ==
    /\ signals = <<>>
    /\ result = NoResult
    /\ finding = NoFinding
    /\ ProfileInit
    /\ ScorerInit
    /\ \E semantic \in BOOLEAN : DetectorInit(semantic)
    /\ LibraryInit

\* Detect: the read lock is taken before the configuration is read
DetectRLock ==
    /\ detect.pc = "idle"
    /\ hdMu.writer = "none"
    /\ hdMu' = [hdMu EXCEPT !.readers = @ + 1]
    /\ detect' = [pc |-> "read_heuristic", read |-> NotRead]
    /\ UNCHANGED <<hd, setter, enabler>>
    /\ UNCHANGED <<aggregatorVars, profileVars, scorerVars, libraryVars>>

DetectReadHeuristicWeight ==
    /\ detect.pc = "read_heuristic"
    /\ detect' = [pc |-> "read_semantic",
                  read |-> [detect.read EXCEPT !.HeuristicWeight = hd.HeuristicWeight]]
    /\ UNCHANGED <<hd, hdMu, setter, enabler>>
    /\ UNCHANGED <<aggregatorVars, profileVars, scorerVars, libraryVars>>

DetectReadSemanticWeight ==
    /\ detect.pc = "read_semantic"
    /\ detect' = [pc |-> "read_enabled",
                  read |-> [detect.read EXCEPT !.SemanticWeight = hd.SemanticWeight]]
    /\ UNCHANGED <<hd, hdMu, setter, enabler>>
    /\ UNCHANGED <<aggregatorVars, profileVars, scorerVars, libraryVars>>

DetectReadSemanticEnabled ==
    /\ detect.pc = "read_enabled"
    /\ detect' = [pc |-> "unlock",
                  read |-> [detect.read EXCEPT !.SemanticEnabled = hd.SemanticEnabled]]
    /\ UNCHANGED <<hd, hdMu, setter, enabler>>
    /\ UNCHANGED <<aggregatorVars, profileVars, scorerVars, libraryVars>>

\* the read lock is released; Detect goes on with the values it read
DetectRUnlock ==
    /\ detect.pc = "unlock"
    /\ hdMu' = [hdMu EXCEPT !.readers = @ - 1]
    /\ detect' = [detect EXCEPT !.pc = "idle"]
    /\ UNCHANGED <<hd, setter, enabler>>
    /\ UNCHANGED <<aggregatorVars, profileVars, scorerVars, libraryVars>>

\* mutant: SetWeights writes without taking the lock
SetWeightsLock_Unlocked(heuristic, semantic) ==
    /\ setter.pc = "idle"
    /\ setter' = [pc |-> "write_heuristic", heuristic |-> heuristic,
                  semantic |-> semantic]
    /\ UNCHANGED <<hd, hdMu, detect, enabler>>
    /\ UNCHANGED <<aggregatorVars, profileVars, scorerVars, libraryVars>>

\* SetWeights(heuristic, semantic): the write lock is taken
SetWeightsLock(heuristic, semantic) ==
    /\ setter.pc = "idle"
    /\ hdMu.writer = "none" /\ hdMu.readers = 0
    /\ hdMu' = [hdMu EXCEPT !.writer = "SetWeights"]
    /\ setter' = [pc |-> "write_heuristic", heuristic |-> heuristic,
                  semantic |-> semantic]
    /\ UNCHANGED <<hd, detect, enabler>>
    /\ UNCHANGED <<aggregatorVars, profileVars, scorerVars, libraryVars>>

SetWeightsWriteHeuristic ==
    /\ setter.pc = "write_heuristic"
    /\ hd' = [hd EXCEPT !.HeuristicWeight = setter.heuristic]
    /\ setter' = [setter EXCEPT !.pc = "write_semantic"]
    /\ UNCHANGED <<hdMu, detect, enabler>>
    /\ UNCHANGED <<aggregatorVars, profileVars, scorerVars, libraryVars>>

SetWeightsWriteSemantic ==
    /\ setter.pc = "write_semantic"
    /\ hd' = [hd EXCEPT !.SemanticWeight = setter.semantic]
    /\ setter' = [setter EXCEPT !.pc = "unlock"]
    /\ UNCHANGED <<hdMu, detect, enabler>>
    /\ UNCHANGED <<aggregatorVars, profileVars, scorerVars, libraryVars>>

SetWeightsUnlock ==
    /\ setter.pc = "unlock"
    /\ hdMu' = [hdMu EXCEPT !.writer = "none"]
    /\ setter' = [setter EXCEPT !.pc = "idle"]
    /\ UNCHANGED <<hd, detect, enabler>>
    /\ UNCHANGED <<aggregatorVars, profileVars, scorerVars, libraryVars>>

\* EnableSemantic(enabled): the write lock is taken
EnableSemanticLock(enabled) ==
    /\ enabler.pc = "idle"
    /\ hdMu.writer = "none" /\ hdMu.readers = 0
    /\ hdMu' = [hdMu EXCEPT !.writer = "EnableSemantic"]
    /\ enabler' = [pc |-> "write", enabled |-> enabled]
    /\ UNCHANGED <<hd, detect, setter>>
    /\ UNCHANGED <<aggregatorVars, profileVars, scorerVars, libraryVars>>

\* SemanticEnabled becomes true only when a semantic detector is configured
EnableSemanticWrite ==
    /\ enabler.pc = "write"
    /\ hd' = [hd EXCEPT !.SemanticEnabled = enabler.enabled /\ hd.semantic]
    /\ enabler' = [enabler EXCEPT !.pc = "unlock"]
    /\ UNCHANGED <<hdMu, detect, setter>>
    /\ UNCHANGED <<aggregatorVars, profileVars, scorerVars, libraryVars>>

EnableSemanticUnlock ==
    /\ enabler.pc = "unlock"
    /\ hdMu' = [hdMu EXCEPT !.writer = "none"]
    /\ enabler' = [enabler EXCEPT !.pc = "idle"]
    /\ UNCHANGED <<hd, detect, setter>>
    /\ UNCHANGED <<aggregatorVars, profileVars, scorerVars, libraryVars>>

NextDetector ==
    \/ DetectRLock
    \/ DetectReadHeuristicWeight
    \/ DetectReadSemanticWeight
    \/ DetectReadSemanticEnabled
    \/ DetectRUnlock
    \/ \E w \in WeightPairs : SetWeightsLock(w[1], w[2])
    \/ SetWeightsWriteHeuristic
    \/ SetWeightsWriteSemantic
    \/ SetWeightsUnlock
    \/ \E enabled \in BOOLEAN : EnableSemanticLock(enabled)
    \/ EnableSemanticWrite
    \/ EnableSemanticUnlock

SpecDetector == InitDetector /\ [][NextDetector]_vars

\* the goroutine is about to read, or to write, a field of the detector
DetectReading == detect.pc \in {"read_heuristic", "read_semantic", "read_enabled"}

SetWeightsWriting == setter.pc \in {"write_heuristic", "write_semantic"}

EnableSemanticWriting == enabler.pc = "write"

\* C20: Detect running concurrently with SetWeights and EnableSemantic has
\* no unsynchronised read/write pair: every read by Detect is made with the
\* read lock held and no writer inside, every write by SetWeights or
\* EnableSemantic with the write lock held, no two goroutines are at
\* conflicting accesses at once, and the two weights Detect read are those
\* of a single SetWeights call or the defaults.
C20_DetectUnderLock ==
    /\ DetectReading => (hdMu.readers > 0 /\ hdMu.writer = "none")
    /\ SetWeightsWriting => (hdMu.writer = "SetWeights" /\ hdMu.readers = 0)
    /\ EnableSemanticWriting => (hdMu.writer = "EnableSemantic" /\ hdMu.readers = 0)
    /\ ~(DetectReading /\ (SetWeightsWriting \/ EnableSemanticWriting))
    /\ ~(SetWeightsWriting /\ EnableSemanticWriting)
    /\ detect.read.SemanticWeight # -1 =>
          <<detect.read.HeuristicWeight, detect.read.SemanticWeight>>
              \in WeightPairs \cup {DefaultWeights}

\* Detect, still holding the read lock, has read the two weights a
\* completed SetWeights(0.7, 0.3) call wrote
C20_Witness ==
    /\ detect.pc = "unlock"
    /\ <<detect.read.HeuristicWeight, detect.read.SemanticWeight>> = <<70, 30>>
    /\ hdMu.readers = 1
    /\ setter.pc = "idle"
    /\ hd.HeuristicWeight = 70

\* the last call of the loader was a LoadScorerConfig that found the file
\* in the state outcome, and it has returned
LoadReturned(outcome) ==
    loader.pc = "idle" /\ loader.file = outcome

EmbeddedDefaults ==
    /\ KeywordWeightsOf(scorerConfig) = <<"defaultKeywordWeights", 0>>
    /\ CryptoPatternsOf(scorerConfig) = <<"defaultCryptoPatterns", 0>>

\* C21: after a LoadScorerConfig call whose scorer_weights.yaml is missing
\* or malformed, whatever was loaded before, GetKeywordWeights and
\* GetCryptoPatterns return the embedded default tables.
C21_DefaultsAfterFailedLoad ==
    (LoadReturned("missing") \/ LoadReturned("malformed")) => EmbeddedDefaults

\* C21 as the code has it: a failed load leaves scorerConfig as it was, so
\* the getters return the embedded defaults when no load has succeeded
\* before it.
C21_DefaultsWithoutEarlierLoad ==
    ((LoadReturned("missing") \/ LoadReturned("malformed")) /\ loader.loads = 0)
        => EmbeddedDefaults

\* a first load found no file and returned nil, or found a malformed one and
\* returned an error; the getters fall back
C21_Witness ==
    /\ loader.loads = 0
    /\ \/ LoadReturned("missing") /\ loader.returned = "nil"
       \/ LoadReturned("malformed") /\ loader.returned = "error"
    /\ EmbeddedDefaults

\* a load of a missing file returned nil after an earlier load had stored
\* keyword weights, and GetKeywordWeights still returns those
C21_StaleConfigReached ==
    /\ LoadReturned("missing")
    /\ loader.returned = "nil"
    /\ KeywordWeightsOf(scorerConfig) = <<"KeywordWeights", 1>>

(***************************************************************************)
(* The benign-pattern discount as a state machine: a scorer_weights.yaml   *)
(* with some benign_patterns is loaded, and ApplyBenignPatternDiscount is  *)
(* called on a text.                                                       *)
(***************************************************************************)
InitBenign ==
    /\ signals = <<>>
    /\ result = NoResult
    /\ finding = NoFinding
    /\ ProfileInit
    /\ ScorerInit
    /\ DetectorInit(FALSE)
    /\ LibraryInit

\* LoadScorerConfig storing a config whose benign_patterns is table, as
\* GetBenignPatterns then returns it
LoadBenignPatterns(table) ==
    /\ benign' = [patterns |-> table, call |-> NotCalled]
    /\ UNCHANGED <<aggregatorVars, profileVars, scorerVars, detectorVars>>
    /\ UNCHANGED <<context, category, discovery, embedder, download>>

CallApplyBenignPatternDiscount(text) ==
    /\ benign' = [benign EXCEPT !.call =
                     [pc |-> "returned", text |-> text,
                      ret |-> ApplyBenignPatternDiscount(benign.patterns, text)]]
    /\ UNCHANGED <<aggregatorVars, profileVars, scorerVars, detectorVars>>
    /\ UNCHANGED <<context, category, discovery, embedder, download>>

NextBenign ==
    \/ \E table \in BenignTables : LoadBenignPatterns(table)
    \/ \E text \in Texts : CallApplyBenignPatternDiscount(text)

SpecBenign == InitBenign /\ [][NextBenign]_vars

\* the two characters are the same letter
SameLetter(c, d) ==
    \/ c = d
    \/ {c, d} = {"a", "A"}
    \/ {c, d} = {"b", "B"}

\* the phrase occurs in the text, letter case aside
OccursIn(phrase, text) ==
    \E start \in 1..(Len(text) - Len(phrase) + 1) :
        \A k \in 1..Len(phrase) : SameLetter(text[start + k - 1], phrase[k])

\* the sum of the weights of the phrases of the table that occur in the text
RECURSIVE WeightOfOccurring(_, _, _)
WeightOfOccurring(table, phrases, text) ==
    IF phrases = {} THEN 0
    ELSE LET p == CHOOSE q \in phrases : TRUE
         IN  (IF OccursIn(p, text) THEN table[p] ELSE 0)
               + WeightOfOccurring(table, phrases \ {p}, text)

BenignReturned ==
    benign.call.pc = "returned"

\* C22: ApplyBenignPatternDiscount returns max(-0.65, the sum of the weights
\* of the benign phrases contained case-insensitively in the text), never
\* less than -0.65, and (0, no matches) when no benign patterns are loaded.
C22_BenignDiscountCap ==
    BenignReturned =>
        LET total == WeightOfOccurring(benign.patterns, DOMAIN benign.patterns,
                                       benign.call.text)
        IN  /\ benign.call.ret.discount = (IF total > -65 THEN total ELSE -65)
            /\ benign.call.ret.discount >= -65
            /\ DOMAIN benign.patterns = {} =>
                   benign.call.ret = [discount |-> 0, matched |-> {}]

\* three phrases, one of them written with a capital, occur in the text and
\* weigh more than the cap between them
C22_Witness ==
    /\ BenignReturned
    /\ benign.call.ret.matched = BenignPhrases
    /\ WeightOfOccurring(benign.patterns, BenignPhrases, benign.call.text) < -65
    /\ benign.call.ret.discount = -65

\* a call with no table loaded
C22_NoTableReached ==
    /\ BenignReturned
    /\ benign.patterns = EmptyTable
    /\ Len(benign.call.text) > 0

(***************************************************************************)
(* The context discount as a state machine: the context signals of a text  *)
(* are detected, and a score is discounted under a profile.                *)
(***************************************************************************)
InitContext ==
    /\ signals = <<>>
    /\ result = NoResult
    /\ finding = NoFinding
    /\ ProfileInit
    /\ ScorerInit
    /\ DetectorInit(FALSE)
    /\ LibraryInit

PhraseCounts == 0..MaxPhrases

\* the risk scores discounted, in hundredths
RiskScores == {0, 50, 84, 85, 90, 100}

\* the profile argument: a registered profile or nil
ProfileArguments ==
    {ProfileStrict, ProfileBalanced, ProfilePermissive, ProfileCodeAssistant,
     ProfileAISafety, NoProfile}

CallDetectContextSignals(educational, creative, historical, professional) ==
    /\ context' = [signals |-> DetectContextSignals(educational, creative,
                                                    historical, professional),
                   call |-> NotCalled]
    /\ UNCHANGED <<aggregatorVars, profileVars, scorerVars, detectorVars>>
    /\ UNCHANGED <<benign, category, discovery, embedder, download>>

CallApplyContextDiscount(score, p) ==
    /\ context' = [context EXCEPT !.call =
                      [pc |-> "returned", score |-> score, profile |-> p,
                       ret |-> ApplyContextDiscount(score, context.signals, p)]]
    /\ UNCHANGED <<aggregatorVars, profileVars, scorerVars, detectorVars>>
    /\ UNCHANGED <<benign, category, discovery, embedder, download>>

NextContext ==
    \/ \E educational, creative, historical, professional \in PhraseCounts :
           CallDetectContextSignals(educational, creative, historical, professional)
    \/ \E score \in RiskScores, p \in ProfileArguments :
           CallApplyContextDiscount(score, p)

SpecContext == InitContext /\ [][NextContext]_vars

ContextReturned ==
    context.call.pc = "returned"

\* the returned score is at least percent % of the score passed
KeepsAtLeast(percent) ==
    context.call.ret[1] * 10000 >= percent * context.call.score * context.call.ret[2]

NotRaised ==
    context.call.ret[1] * 100 <= context.call.score * context.call.ret[2]

\* C23: for every score >= 0.85, whatever the context signals and the
\* profile, ApplyContextDiscount returns at least 0.70 x score (it takes
\* off at most 30%), and it never returns more than the score it was given.
C23_EvasionGuard ==
    ContextReturned =>
        /\ context.call.score >= 85 => KeepsAtLeast(70)
        /\ NotRaised

\* a score of 0.90 under the ai_safety profile, in a text with two
\* educational and two professional phrases, comes back as 0.594, below 0.63
C23_GuardMissingReached ==
    /\ ContextReturned
    /\ context.call.score = 90
    /\ context.call.profile = ProfileAISafety
    /\ context.signals = DetectContextSignals(2, 0, 0, 2)
    /\ context.call.ret = Rat(90 * 66, 10000)

\* what ApplyContextDiscount does guarantee: at most half is taken off, and
\* nothing is added
ContextDiscountCap ==
    ContextReturned => (KeepsAtLeast(50) /\ NotRaised)

(***************************************************************************)
(* Category normalisation as a state machine: a caller holds a category    *)
(* string, calls NormalizeCategory on it, and then on the string of the    *)
(* result.                                                                 *)
(***************************************************************************)
\* every keyword of the fallback
FallbackKeywords ==
    UNION {FallbackCases[i][1] : i \in 1..Len(FallbackCases)}

\* the category strings passed: the empty one, the keys of the mapping, the
\* TIS names, the inputs of TestNormalizeCategory, names built around each
\* keyword of the fallback, and names in capitals
CategoryInputs ==
    {""}
    \cup DOMAIN internalCategoryMapping
    \cup AllTISCategories
    \cup {"unknown_jailbreak_attack", "some_extraction_method", "obfuscation_layer",
          "completely_unknown"}
    \cup {prefix \o k \o suffix : prefix \in {"", "new_"}, k \in FallbackKeywords,
                                  suffix \in {"", "ing_tool"}}
    \cup {"JAILBREAK", "Multi_Turn", "Unknown", "DAN", "Prompt Injection", "XSS"}

InitCategory ==
    /\ signals = <<>>
    /\ result = NoResult
    /\ finding = NoFinding
    /\ ProfileInit
    /\ ScorerInit
    /\ DetectorInit(FALSE)
    /\ BenignInit
    /\ ContextInit
    /\ \E c \in CategoryInputs : category = [pc |-> "call", input |-> c]
    /\ DiscoveryInit
    /\ EmbedderInit
    /\ DownloadInit

CallNormalizeCategory ==
    /\ category.pc = "call"
    /\ category' = [pc |-> "normalized", input |-> category.input,
                    ret |-> NormalizeCategory(category.input)]
    /\ UNCHANGED <<aggregatorVars, profileVars, scorerVars, detectorVars>>
    /\ UNCHANGED <<benign, context, discovery, embedder, download>>

\* NormalizeCategory(string(tis)) on the result tis of the call before
CallNormalizeCategoryOnResult ==
    /\ category.pc = "normalized"
    /\ category' = [pc |-> "renormalized", input |-> category.input,
                    ret |-> category.ret,
                    again |-> NormalizeCategory(category.ret)]
    /\ UNCHANGED <<aggregatorVars, profileVars, scorerVars, detectorVars>>
    /\ UNCHANGED <<benign, context, discovery, embedder, download>>

NextCategory ==
    \/ CallNormalizeCategory
    \/ CallNormalizeCategoryOnResult

SpecCategory == InitCategory /\ [][NextCategory]_vars

\* C24: NormalizeCategory is idempotent: on the string of its own result it
\* returns that result again, for every input; what it returns is a TIS
\* category, 'unknown' included.
C24_NormalizeIdempotent ==
    /\ category.pc \in {"normalized", "renormalized"} =>
           category.ret \in AllTISCategories
    /\ category.pc = "renormalized" => category.again = category.ret

\* a name the mapping does not know was normalised by a keyword, and the
\* result by the mapping
C24_Witness ==
    /\ category.pc = "renormalized"
    /\ category.input = "new_injecting_tool"
    /\ category.input \notin DOMAIN internalCategoryMapping
    /\ category.ret = "instruction_override"
    /\ category.again = "instruction_override"

\* 'unknown', which the mapping does not list, falls through every keyword
\* to itself
C24_UnknownReached ==
    /\ category.pc = "renormalized"
    /\ category.input = "completely_unknown"
    /\ category.ret = "unknown"
    /\ "unknown" \notin DOMAIN internalCategoryMapping
    /\ category.again = "unknown"

\* capitals are folded by the keyword fallback, not by the mapping
C24_CapitalsReached ==
    /\ category.pc = "normalized"
    /\ category.input = "Multi_Turn"
    /\ category.ret = "multi_turn"

(***************************************************************************)
(* Config discovery as a state machine: the process starts in some file    *)
(* system and environment, and FindConfigDir is called.                    *)
(***************************************************************************)
\* the values of CITADEL_SEED_CONFIG_DIR: unset or empty, a directory of
\* its own, or one of the fixed candidates
EnvValues == {"", "/opt/citadel/seeds", "./seeds"}

SeedDirs == {"/opt/citadel/seeds"} \cup {FixedCandidates[i] : i \in 1..Len(FixedCandidates)}

\* the file systems: some of the directories exist, ./config whenever
\* ./config/seeds does, and some of the existing ones hold an
\* injection_seed.yaml
FileSystems ==
    {fs \in [dirs : SUBSET SeedDirs, seeded : SUBSET SeedDirs] :
        /\ fs.seeded \subseteq fs.dirs
        /\ "./config/seeds" \in fs.dirs => "./config" \in fs.dirs}

InitDiscovery ==
    /\ signals = <<>>
    /\ result = NoResult
    /\ finding = NoFinding
    /\ ProfileInit
    /\ ScorerInit
    /\ DetectorInit(FALSE)
    /\ BenignInit
    /\ ContextInit
    /\ CategoryInit
    /\ \E fs \in FileSystems, env \in EnvValues :
           discovery = [pc |-> "call", fs |-> fs, env |-> env]
    /\ EmbedderInit
    /\ DownloadInit

CallFindConfigDir ==
    /\ discovery.pc = "call"
    /\ discovery' = [pc |-> "returned", fs |-> discovery.fs, env |-> discovery.env,
                     ret |-> FindConfigDir(discovery.fs, discovery.env)]
    /\ UNCHANGED <<aggregatorVars, profileVars, scorerVars, detectorVars>>
    /\ UNCHANGED <<benign, context, category, embedder, download>>

NextDiscovery == CallFindConfigDir

SpecDiscovery == InitDiscovery /\ [][NextDiscovery]_vars

DiscoveryReturned ==
    discovery.pc = "returned"

\* the candidate list of the call, the environment variable first
Searched == Candidates(discovery.env)

\* candidate i is a directory that exists
Exists(i) ==
    Searched[i] # "" /\ Searched[i] \in discovery.fs.dirs

\* candidate i is a directory holding an injection_seed.yaml
Seeded(i) ==
    Searched[i] # "" /\ Searched[i] \in discovery.fs.seeded

\* C25: FindConfigDir returns the first existing directory among
\* $CITADEL_SEED_CONFIG_DIR, ./config/seeds, ./seeds, ./config,
\* ../config/seeds, /app/config, /etc/citadel/seeds; an empty variable is
\* skipped, an earlier existing candidate wins over a later one, and the
\* empty string is returned only when none of the candidates exists.
C25_FirstExistingDirectory ==
    DiscoveryReturned =>
        \/ /\ discovery.ret = ""
           /\ \A i \in 1..Len(Searched) : ~Exists(i)
        \/ \E i \in 1..Len(Searched) :
               /\ discovery.ret = Searched[i]
               /\ Exists(i)
               /\ \A j \in 1..(i - 1) : ~Exists(j)

\* C25 as the code has it: FindConfigDir returns the first candidate, in
\* that order, that holds an injection_seed.yaml; an empty variable is
\* skipped, and the empty string is returned only when no candidate holds
\* the file.
C25_FirstSeededDirectory ==
    DiscoveryReturned =>
        \/ /\ discovery.ret = ""
           /\ \A i \in 1..Len(Searched) : ~Seeded(i)
        \/ \E i \in 1..Len(Searched) :
               /\ discovery.ret = Searched[i]
               /\ Seeded(i)
               /\ \A j \in 1..(i - 1) : ~Seeded(j)

\* the variable is empty, ./config/seeds and ./seeds both hold the file, and
\* the earlier one is returned
C25_Witness ==
    /\ DiscoveryReturned
    /\ discovery.env = ""
    /\ {"./config/seeds", "./seeds", "/app/config"} \subseteq discovery.fs.seeded
    /\ discovery.ret = "./config/seeds"

\* ./config exists without the file and is passed over for /app/config
C25_ExistingSkippedReached ==
    /\ DiscoveryReturned
    /\ discovery.env = ""
    /\ discovery.fs.dirs = {"./config", "/app/config"}
    /\ discovery.fs.seeded = {"/app/config"}
    /\ discovery.ret = "/app/config"

\* directories exist, none holds the file, and the empty string is returned
C25_NoneSeededReached ==
    /\ DiscoveryReturned
    /\ discovery.fs.dirs # {}
    /\ discovery.fs.seeded = {}
    /\ discovery.ret = ""

\* C26: Aggregate never asks for a source whose signal is already among the
\* signals: not for deeper_go when a deeper_go signal is present, not for
\* the safeguard when a safeguard signal is present; so a driver that adds
\* one signal of the requested source per request comes to
\* escalation_needed = none after at most one round per source.
C26_NoRepeatedEscalation ==
    Returned =>
        /\ result.escalation_needed = "deeper_go" => ~Present("deeper_go")
        /\ result.escalation_needed = "safeguard" => ~Present("safeguard")
        /\ result.escalation_needed \in {"", "safeguard", "deeper_go"}

(***************************************************************************)
(* Obfuscation markers and the verdict: Aggregate on a completed signal    *)
(* set whose heuristic signal carries obfuscation markers, compared with   *)
(* Aggregate on the same signals without the markers.                      *)
(***************************************************************************)
\* heuristic signals of a text that was decoded
MarkedHeuristicSignals ==
    {h \in HeuristicSignals : h.obfuscation_types # {}}

\* BERT signals whose label is that of their score, and one of a classifier
\* that is far from sure
ClassifierSignals ==
    {b \in BertSignals : b.label = ScoreLabel(b.score)}
    \cup {Signal("bert", 10, 20, "SAFE", {})}

\* the signal of a third detector: the semantic layer, or an arbiter, two of
\* them nearly certain of an injection
ThirdSignals ==
    SemanticSignals \cup ArbiterSignals
    \cup {Signal(src, 94, 80, "INJECTION", {}) : src \in {"safeguard", "llm"}}

MarkedSignalSets ==
    {<<h, b>> : h \in MarkedHeuristicSignals, b \in ClassifierSignals}
    \cup {<<h, b, t>> : h \in MarkedHeuristicSignals, b \in ClassifierSignals,
                        t \in ThirdSignals}

InitObfuscation ==
    /\ signals \in MarkedSignalSets
    /\ result = NoResult
    /\ finding = NoFinding
    /\ ProfileInit
    /\ ScorerInit
    /\ DetectorInit(FALSE)
    /\ LibraryInit

NextObfuscation == Aggregate

SpecObfuscation == InitObfuscation /\ [][NextObfuscation]_vars

\* the same signals without their obfuscation markers
WithoutObfuscation(sigs) ==
    [i \in 1..Len(sigs) |-> [sigs[i] EXCEPT !.obfuscation_types = {}]]

\* what Aggregate returns for the signals stripped of their markers
PlainResult == AggregateResult(WithoutObfuscation(signals))

\* ALLOW < WARN < BLOCK
Severity(action) ==
    CASE action = "ALLOW" -> 0
      [] action = "WARN" -> 1
      [] action = "BLOCK" -> 2

\* the rational r is at least the rational q
RatAtLeast(r, q) ==
    r[1] * q[2] >= q[1] * r[2]

\* C27: obfuscation never weakens the verdict: of two signal sets that
\* differ only in that the second carries obfuscation markers, the second
\* gets a final_score at least as high and an action at least as severe,
\* on every tier, the Tier 2 paths included.
C27_ObfuscationNeverWeakens ==
    (Returned /\ HasObfuscation(signals)) =>
        /\ RatAtLeast(result.final_score, PlainResult.final_score)
        /\ Severity(result.action) >= Severity(PlainResult.action)

\* the veto lowered the score: 0.52 with markers on the heuristic signal,
\* 0.588 without
C27_WeakenedScoreReached ==
    /\ Returned
    /\ signals = <<Signal("heuristic", 40, 50, "SAFE", {"base64"}),
                   Signal("bert", 10, 50, "SAFE", {}),
                   Signal("safeguard", 94, 80, "INJECTION", {})>>
    /\ result.decision_path = "TIER_2_OBFUSCATION_VETO"
    /\ result.final_score = Rat(52, 100)
    /\ PlainResult.decision_path = "TIER_3_WEIGHTED_AGGREGATION"
    /\ RatAtLeast(PlainResult.final_score, Rat(58, 100))

\* the markers turned a BLOCK into a WARN
C27_WeakenedActionReached ==
    /\ Returned
    /\ HasObfuscation(signals)
    /\ \A i \in Idx : signals[i].label = ScoreLabel(signals[i].score)
    /\ result.action = "WARN"
    /\ PlainResult.action = "BLOCK"

(***************************************************************************)
(* The local embedder under concurrency.  Every acquisition and release of *)
(* e.mu is a step; a caller at "run" is inside pipeline.RunPipeline.       *)
(***************************************************************************)
InitEmbedder ==
    /\ signals = <<>>
    /\ result = NoResult
    /\ finding = NoFinding
    /\ ProfileInit
    /\ ScorerInit
    /\ DetectorInit(FALSE)
    /\ LibraryInit

\* EmbedBatch(ctx, texts): e.mu.RLock()
EmbedBatchRLock(g, texts) ==
    /\ embedder.callers[g].pc = "idle"
    /\ ~embedder.mu.writer
    /\ embedder' = [embedder EXCEPT
                       !.mu.readers = @ + 1,
                       !.callers[g] = [pc |-> "check", texts |-> texts,
                                       afterClose |-> embedder.closed,
                                       ran |-> FALSE, ret |-> "none"]]
    /\ UNCHANGED <<aggregatorVars, profileVars, scorerVars, detectorVars>>
    /\ UNCHANGED <<benign, context, category, discovery, download>>

\* the tests before the pipeline: not ready, or nothing to embed
EmbedBatchCheck(g) ==
    /\ embedder.callers[g].pc = "check"
    /\ embedder' =
         IF ~embedder.ready \/ ~embedder.pipeline
         THEN [embedder EXCEPT !.callers[g].pc = "unlock",
                               !.callers[g].ret = "local embedder not ready"]
         ELSE IF embedder.callers[g].texts = "empty"
         THEN [embedder EXCEPT !.callers[g].pc = "unlock",
                               !.callers[g].ret = "no embeddings"]
         ELSE [embedder EXCEPT !.callers[g].pc = "run",
                               !.callers[g].ran = TRUE]
    /\ UNCHANGED <<aggregatorVars, profileVars, scorerVars, detectorVars>>
    /\ UNCHANGED <<benign, context, category, discovery, download>>

\* e.pipeline.RunPipeline(texts) returns, with embeddings or with an error
EmbedBatchRunPipeline(g, outcome) ==
    /\ embedder.callers[g].pc = "run"
    /\ embedder' = [embedder EXCEPT !.callers[g].pc = "unlock",
                                    !.callers[g].ret = outcome]
    /\ UNCHANGED <<aggregatorVars, profileVars, scorerVars, detectorVars>>
    /\ UNCHANGED <<benign, context, category, discovery, download>>

\* the deferred e.mu.RUnlock(); EmbedBatch returns
EmbedBatchRUnlock(g) ==
    /\ embedder.callers[g].pc = "unlock"
    /\ embedder' = [embedder EXCEPT !.mu.readers = @ - 1,
                                    !.callers[g].pc = "idle"]
    /\ UNCHANGED <<aggregatorVars, profileVars, scorerVars, detectorVars>>
    /\ UNCHANGED <<benign, context, category, discovery, download>>

\* a Close that does not wait for the readers
CloseLock_NoWait ==
    /\ embedder.closer.pc = "idle"
    /\ embedder.closer.closes < MaxCloses
    /\ ~embedder.mu.writer
    /\ embedder' = [embedder EXCEPT !.mu.writer = TRUE,
                                    !.closer.pc = "clear"]
    /\ UNCHANGED <<aggregatorVars, profileVars, scorerVars, detectorVars>>
    /\ UNCHANGED <<benign, context, category, discovery, download>>

\* Close: e.mu.Lock()
CloseLock ==
    /\ embedder.closer.pc = "idle"
    /\ embedder.closer.closes < MaxCloses
    /\ ~embedder.mu.writer /\ embedder.mu.readers = 0
    /\ embedder' = [embedder EXCEPT !.mu.writer = TRUE,
                                    !.closer.pc = "clear"]
    /\ UNCHANGED <<aggregatorVars, profileVars, scorerVars, detectorVars>>
    /\ UNCHANGED <<benign, context, category, discovery, download>>

\* e.ready = false
CloseClearReady ==
    /\ embedder.closer.pc = "clear"
    /\ embedder' = [embedder EXCEPT !.ready = FALSE,
                                    !.closer.pc = "destroy"]
    /\ UNCHANGED <<aggregatorVars, profileVars, scorerVars, detectorVars>>
    /\ UNCHANGED <<benign, context, category, discovery, download>>

\* e.session.Destroy(), the session being non-nil since initialize
CloseDestroy ==
    /\ embedder.closer.pc = "destroy"
    /\ embedder' = [embedder EXCEPT !.session = "destroyed",
                                    !.closer.pc = "unlock"]
    /\ UNCHANGED <<aggregatorVars, profileVars, scorerVars, detectorVars>>
    /\ UNCHANGED <<benign, context, category, discovery, download>>

\* the deferred e.mu.Unlock(); Close returns
CloseUnlock ==
    /\ embedder.closer.pc = "unlock"
    /\ embedder' = [embedder EXCEPT !.mu.writer = FALSE,
                                    !.closed = TRUE,
                                    !.closer.pc = "idle",
                                    !.closer.closes = @ + 1]
    /\ UNCHANGED <<aggregatorVars, profileVars, scorerVars, detectorVars>>
    /\ UNCHANGED <<benign, context, category, discovery, download>>

\* IsReady: e.mu.RLock()
IsReadyRLock ==
    /\ embedder.reader.pc = "idle"
    /\ ~embedder.mu.writer
    /\ embedder' = [embedder EXCEPT
                       !.mu.readers = @ + 1,
                       !.reader = [pc |-> "read", afterClose |-> embedder.closed,
                                   ret |-> "none"]]
    /\ UNCHANGED <<aggregatorVars, profileVars, scorerVars, detectorVars>>
    /\ UNCHANGED <<benign, context, category, discovery, download>>

\* return e.ready, and the deferred e.mu.RUnlock()
IsReadyReturn ==
    /\ embedder.reader.pc = "read"
    /\ embedder' = [embedder EXCEPT !.mu.readers = @ - 1,
                                    !.reader.pc = "idle",
                                    !.reader.ret = IF embedder.ready THEN "true"
                                                   ELSE "false"]
    /\ UNCHANGED <<aggregatorVars, profileVars, scorerVars, detectorVars>>
    /\ UNCHANGED <<benign, context, category, discovery, download>>

NextEmbedder ==
    \/ \E g \in Callers, texts \in {"empty", "some"} : EmbedBatchRLock(g, texts)
    \/ \E g \in Callers : EmbedBatchCheck(g)
    \/ \E g \in Callers, outcome \in {"embeddings", "embedding generation failed"} :
           EmbedBatchRunPipeline(g, outcome)
    \/ \E g \in Callers : EmbedBatchRUnlock(g)
    \/ CloseLock
    \/ CloseClearReady
    \/ CloseDestroy
    \/ CloseUnlock
    \/ IsReadyRLock
    \/ IsReadyReturn

SpecEmbedder == InitEmbedder /\ [][NextEmbedder]_vars

\* goroutine g is inside RunPipeline
InPipeline(g) ==
    embedder.callers[g].pc = "run"

\* Close holds the lock: between e.mu.Lock() and the deferred Unlock
Closing ==
    embedder.closer.pc \in {"clear", "destroy", "unlock"}

\* the EmbedBatch call of g has returned
EmbedReturned(g) ==
    embedder.callers[g].pc = "idle" /\ embedder.callers[g].ret # "none"

\* C28: in every interleaving of EmbedBatch, Close and IsReady on one
\* embedder the pipeline never runs while or after the session is
\* destroyed: Close holds the lock only when no EmbedBatch is in flight,
\* an EmbedBatch that starts after Close returns 'local embedder not ready'
\* without touching the pipeline, and IsReady is false from Close onwards.
C28_EmbedderLifecycle ==
    /\ \A g \in Callers :
           /\ InPipeline(g) => (embedder.session = "live" /\ ~Closing)
           /\ Closing => embedder.callers[g].pc = "idle"
           /\ (embedder.callers[g].afterClose /\ embedder.callers[g].pc # "check") =>
                  /\ ~embedder.callers[g].ran
                  /\ embedder.callers[g].ret = "local embedder not ready"
    /\ embedder.closed => ~embedder.ready
    /\ (embedder.reader.afterClose /\ embedder.reader.pc = "idle") =>
           embedder.reader.ret = "false"

\* one EmbedBatch ran the pipeline and returned embeddings before Close, and
\* one that started after Close was refused, although it had nothing to
\* embed
C28_Witness ==
    /\ embedder.closed
    /\ embedder.session = "destroyed"
    /\ EmbedReturned(1)
    /\ embedder.callers[1].ran /\ embedder.callers[1].ret = "embeddings"
    /\ EmbedReturned(2)
    /\ embedder.callers[2].afterClose
    /\ embedder.callers[2].texts = "empty"
    /\ embedder.callers[2].ret = "local embedder not ready"
    /\ embedder.reader.afterClose /\ embedder.reader.ret = "false"

\* Close is kept waiting: a pipeline is running and Close has not got the
\* lock
C28_CloseWaitsReached ==
    /\ InPipeline(1)
    /\ embedder.closer.pc = "idle"
    /\ ~ENABLED CloseLock
    /\ embedder.closer.closes < MaxCloses

(***************************************************************************)
(* Model download under concurrency.  A goroutine calls one of the two     *)
(* Ensure functions; the test before the lock, the lock, the test after    *)
(* it, and every os.Stat, os.Create, io.Copy and os.Rename of the download *)
(* loop are steps.  A download can fail at the HTTP request or the copy.   *)
(***************************************************************************)
InitDownload ==
    /\ signals = <<>>
    /\ result = NoResult
    /\ finding = NoFinding
    /\ ProfileInit
    /\ ScorerInit
    /\ DetectorInit(FALSE)
    /\ LibraryInit

\* the path of the call of g holds these files
FilesOf(g) ==
    download.files[download.callers[g].fn]

\* the call: the existence test before the lock
EnsureCall(g, fn) ==
    /\ download.callers[g].pc = "idle"
    /\ download.calls < MaxCalls
    /\ download' =
         [download EXCEPT !.calls = @ + 1, !.callers[g] =
             [pc |-> IF AlreadyThere(fn, download.files[fn]) THEN "idle" ELSE "lock",
              fn |-> fn, file |-> 0,
              ret |-> IF AlreadyThere(fn, download.files[fn]) THEN "nil" ELSE "none",
              fetched |-> FALSE,
              afterSuccess |-> download.succeeded[fn]]]
    /\ UNCHANGED <<aggregatorVars, profileVars, scorerVars, detectorVars>>
    /\ UNCHANGED <<benign, context, category, discovery, embedder>>

\* a lock that is granted while another goroutine holds it
EnsureLock_NoMutex(g) ==
    /\ download.callers[g].pc = "lock"
    /\ download' = [download EXCEPT !.mutex = g, !.callers[g].pc = "doublecheck"]
    /\ UNCHANGED <<aggregatorVars, profileVars, scorerVars, detectorVars>>
    /\ UNCHANGED <<benign, context, category, discovery, embedder>>

\* downloadMutex.Lock()
EnsureLock(g) ==
    /\ download.callers[g].pc = "lock"
    /\ download.mutex = 0
    /\ download' = [download EXCEPT !.mutex = g, !.callers[g].pc = "doublecheck"]
    /\ UNCHANGED <<aggregatorVars, profileVars, scorerVars, detectorVars>>
    /\ UNCHANGED <<benign, context, category, discovery, embedder>>

\* the existence test after the lock; os.MkdirAll, which can fail
EnsureDoubleCheck(g, mkdir) ==
    /\ download.callers[g].pc = "doublecheck"
    /\ download' =
         IF AlreadyThere(download.callers[g].fn, FilesOf(g))
         THEN [download EXCEPT !.callers[g].pc = "unlock",
                               !.callers[g].ret = "nil"]
         ELSE IF mkdir = "failed"
         THEN [download EXCEPT !.callers[g].pc = "unlock",
                               !.callers[g].ret = "error"]
         ELSE [download EXCEPT !.callers[g].pc = "stat",
                               !.callers[g].file = 1]
    /\ UNCHANGED <<aggregatorVars, profileVars, scorerVars, detectorVars>>
    /\ UNCHANGED <<benign, context, category, discovery, embedder>>

\* the download loop has dealt with the file it is at: on to the next one,
\* or return nil after the last
NextFile(g, d) ==
    IF d.callers[g].file = Len(modelFiles)
    THEN [d EXCEPT !.callers[g].pc = "unlock",
                   !.callers[g].ret = "nil",
                   !.succeeded[d.callers[g].fn] = TRUE]
    ELSE [d EXCEPT !.callers[g].pc = "stat",
                   !.callers[g].file = @ + 1]

\* the loop's os.Stat(destFile): a file that exists is skipped
DownloadStat(g) ==
    /\ download.callers[g].pc = "stat"
    /\ download' =
         IF FileExists(FilesOf(g), download.callers[g].file)
         THEN NextFile(g, download)
         ELSE [download EXCEPT !.callers[g].pc = "create"]
    /\ UNCHANGED <<aggregatorVars, profileVars, scorerVars, detectorVars>>
    /\ UNCHANGED <<benign, context, category, discovery, embedder>>

\* downloadFile: os.Create(tmpPath) and http.Get; on an error the deferred
\* os.Remove(tmpPath) runs and the required file makes the call fail
DownloadCreate(g, outcome) ==
    /\ download.callers[g].pc = "create"
    /\ download' =
         IF outcome = "ok"
         THEN [download EXCEPT !.tmp[download.callers[g].fn] = "partial",
                               !.callers[g].pc = "copy"]
         ELSE [download EXCEPT !.tmp[download.callers[g].fn] = "absent",
                               !.callers[g].pc = "unlock",
                               !.callers[g].ret = "error"]
    /\ UNCHANGED <<aggregatorVars, profileVars, scorerVars, detectorVars>>
    /\ UNCHANGED <<benign, context, category, discovery, embedder>>

\* io.Copy(out, resp.Body) and out.Close()
DownloadCopy(g, outcome) ==
    /\ download.callers[g].pc = "copy"
    /\ download' =
         IF outcome = "ok"
         THEN [download EXCEPT !.tmp[download.callers[g].fn] = "complete",
                               !.callers[g].pc = "rename"]
         ELSE [download EXCEPT !.tmp[download.callers[g].fn] = "absent",
                               !.callers[g].pc = "unlock",
                               !.callers[g].ret = "error"]
    /\ UNCHANGED <<aggregatorVars, profileVars, scorerVars, detectorVars>>
    /\ UNCHANGED <<benign, context, category, discovery, embedder>>

\* os.Rename(tmpPath, destPath): the destination gets what the temporary
\* file holds
DownloadRename(g) ==
    /\ download.callers[g].pc = "rename"
    /\ LET fn == download.callers[g].fn
           f == download.callers[g].file
       IN  download' =
             NextFile(g, [download EXCEPT !.files[fn][f] = download.tmp[fn],
                                          !.tmp[fn] = "absent",
                                          !.fetches[fn][f] = @ + 1,
                                          !.callers[g].fetched = TRUE])
    /\ UNCHANGED <<aggregatorVars, profileVars, scorerVars, detectorVars>>
    /\ UNCHANGED <<benign, context, category, discovery, embedder>>

\* the deferred downloadMutex.Unlock(); the call returns
EnsureUnlock(g) ==
    /\ download.callers[g].pc = "unlock"
    /\ download' = [download EXCEPT !.mutex = 0, !.callers[g].pc = "idle",
                                     !.callers[g].file = 0]
    /\ UNCHANGED <<aggregatorVars, profileVars, scorerVars, detectorVars>>
    /\ UNCHANGED <<benign, context, category, discovery, embedder>>

NextDownload ==
    \/ \E g \in Downloaders, fn \in EnsureFunctions : EnsureCall(g, fn)
    \/ \E g \in Downloaders : EnsureLock(g)
    \/ \E g \in Downloaders, mkdir \in {"ok", "failed"} : EnsureDoubleCheck(g, mkdir)
    \/ \E g \in Downloaders : DownloadStat(g)
    \/ \E g \in Downloaders, outcome \in {"ok", "failed"} : DownloadCreate(g, outcome)
    \/ \E g \in Downloaders, outcome \in {"ok", "failed"} : DownloadCopy(g, outcome)
    \/ \E g \in Downloaders : DownloadRename(g)
    \/ \E g \in Downloaders : EnsureUnlock(g)

SpecDownload == InitDownload /\ [][NextDownload]_vars

\* g is downloading: inside the loop over the files
Downloading(g) ==
    download.callers[g].pc \in {"stat", "create", "copy", "rename"}

\* the call of g has returned
EnsureReturned(g) ==
    download.callers[g].pc = "idle" /\ download.callers[g].ret # "none"

\* g holds downloadMutex
HoldsMutex(g) ==
    Downloading(g) \/ download.callers[g].pc \in {"doublecheck", "unlock"}

\* a download of the path of g's call has succeeded
PathSucceeded(g) ==
    download.callers[g].fn # "none" /\ download.succeeded[download.callers[g].fn]

\* C29: however many goroutines call EnsureModelDownloaded and
\* EnsureEmbeddingModelDownloaded, at most one download runs at a time, the
\* two functions sharing downloadMutex; once a download of a path has
\* succeeded, every other call for that path returns nil without
\* downloading anything; no file is downloaded twice.
C29_DownloadMutualExclusion ==
    /\ \A g, h \in Downloaders : (Downloading(g) /\ Downloading(h)) => g = h
    /\ \A g \in Downloaders :
           /\ HoldsMutex(g) => download.mutex = g
           /\ PathSucceeded(g) =>
                  /\ ~Downloading(g)
                  /\ download.callers[g].pc = "unlock" => download.callers[g].ret = "nil"
           /\ download.callers[g].afterSuccess =>
                  /\ EnsureReturned(g)
                  /\ download.callers[g].ret = "nil"
                  /\ ~download.callers[g].fetched
    /\ \A fn \in EnsureFunctions, f \in FileIndex : download.fetches[fn][f] <= 1

\* one goroutine downloaded the classifier model, the other waited for the
\* mutex, found the model after the lock and returned nil without a
\* download
C29_Witness ==
    /\ download.succeeded["model"]
    /\ EnsureReturned(1) /\ download.callers[1].fn = "model"
    /\ download.callers[1].fetched
    /\ \A f \in FileIndex : download.fetches["model"][f] = 1
    /\ download.callers[1].ret = "nil"
    /\ EnsureReturned(2) /\ download.callers[2].fn = "model"
    /\ ~download.callers[2].afterSuccess
    /\ ~download.callers[2].fetched
    /\ download.callers[2].ret = "nil"

\* a call for the embedding model waits while the classifier model is being
\* downloaded
C29_OtherModelWaitsReached ==
    /\ Downloading(1) /\ download.callers[1].fn = "model"
    /\ download.callers[2].pc = "lock" /\ download.callers[2].fn = "embedding"

\* every file of modelFiles is on disk, completely written
ModelComplete(fn) ==
    \A f \in FileIndex : download.files[fn][f] = "complete"

\* C30: whenever an EnsureModelDownloaded call returns nil, after whatever
\* calls and failed downloads came before, all five required model files
\* exist at the model path; and no destination file ever exists partially
\* written, a file appearing only through the rename of a completed
\* temporary file.
C30_CompleteModelOnSuccess ==
    /\ \A g \in Downloaders :
           (EnsureReturned(g) /\ download.callers[g].fn = "model"
              /\ download.callers[g].ret = "nil") => ModelComplete("model")
    /\ \A fn \in EnsureFunctions, f \in FileIndex :
           download.files[fn][f] \in {"absent", "complete"}

\* a first call got model.onnx and tokenizer.json and failed on config.json;
\* the second call found ModelExists true and returned nil with three files
\* missing
C30_IncompleteSuccessReached ==
    /\ EnsureReturned(1)
    /\ download.callers[1].fn = "model"
    /\ download.calls = 2
    /\ download.callers[1].ret = "nil"
    /\ ~download.callers[1].fetched
    /\ download.files["model"] =
         [f \in FileIndex |-> IF f <= 2 THEN "complete" ELSE "absent"]

\* the part of C30 that holds: destination files are never partial, and a
\* call that ran the download loop to its end leaves a complete model
DownloadedModelComplete ==
    /\ \A fn \in EnsureFunctions :
           download.succeeded[fn] => ModelComplete(fn)
    /\ \A fn \in EnsureFunctions, f \in FileIndex :
           download.files[fn][f] \in {"absent", "complete"}

====
